---- MODULE Spec2Model ----
(***************************************************************************)
(* Model of the transaction codec and signing core of electrumsv           *)
(* (src/electrumsv/transaction.py).                                        *)
(*                                                                         *)
(* Byte strings (and the hex strings that carry them) are sequences of     *)
(* integers 0..255.  Fixed-width integers keep their wire width.  Keys,    *)
(* hashes and signatures keep their layout but are shortened: an x         *)
(* coordinate is BodyLen bytes instead of 32, a digest HashLen bytes.      *)
(* The Python None and the empty string, which the code tests by           *)
(* truthiness only, are both the empty sequence; an absent dictionary key  *)
(* that holds a number ('value', 'num_sig') is Absent.                     *)
(*                                                                         *)
(* An operator that can raise returns a record whose field err names the   *)
(* exception ("none" when it returns normally).                            *)
(***************************************************************************)
EXTENDS Integers, Sequences, FiniteSets, TLC

\* ------------------------------------------------------------------ bounds
BodyLen == 1          \* bytes of a key's x coordinate (32 on the wire)
HashLen == 2          \* bytes of a double-SHA256 digest (32 on the wire)
NumKeys == 2          \* distinct curve points the model knows
MaxInputs == 2        \* inputs of a constructed transaction
MaxOutputs == 2       \* outputs of a constructed transaction
MaxCalls == 3         \* calls made on one Transaction object

\* --------------------------------------------------------------- constants
OP_0 == 0
OP_PUSHDATA1 == 76
OP_PUSHDATA2 == 77
OP_PUSHDATA4 == 78
OP_1NEGATE == 79
OP_1 == 81
OP_DUP == 118
OP_EQUAL == 135
OP_EQUALVERIFY == 136
OP_HASH160 == 169
OP_CHECKSIG == 172
OP_CHECKMULTISIG == 174
SIGHASH_ALL == 1
SIGHASH_FORKID == 64
NO_SIGNATURE == <<255>>
Absent == -1

\* Bind(v, F) is F(v): the value v is computed once and named in F
Bind(v, F(_)) == F(v)

\* ------------------------------------------------------------ byte strings
Min(a, b) == IF a < b THEN a ELSE b
Max(a, b) == IF a < b THEN b ELSE a

Zeros(n) == [i \in 1..n |-> 0]

Reverse(s) == [i \in 1..Len(s) |-> s[Len(s) + 1 - i]]

\* Python s[a:b] for 0 <= a, 0-based, clipped at the end of s, never raising
Slice(s, a, b) == SubSeq(s, a + 1, Min(b, Len(s)))

RECURSIVE Join(_)
Join(ss) == IF ss = <<>> THEN <<>> ELSE Head(ss) \o Join(Tail(ss))

\* Numbers of the program are modelled up to BigNum (2^30 - 1, within the
\* model checker's integers); a wire field that encodes a larger one reads as BigNum.
BigNum == ((63 * 256 + 255) * 256 + 255) * 256 + 255

\* bitcoin.int_to_hex(i, length): little-endian, fixed width
RECURSIVE int_to_hex(_, _)
int_to_hex(i, length) ==
    IF length = 0 THEN <<>> ELSE <<i % 256>> \o int_to_hex(i \div 256, length - 1)

\* struct.unpack_from('<H' / '<I' / '<Q'): little-endian unsigned
RECURSIVE unpack_le(_)
unpack_le(b) ==
    IF b = <<>> THEN 0
    ELSE Bind(unpack_le(Tail(b)),
              LAMBDA r : IF r > BigNum \div 256 THEN BigNum ELSE Head(b) + 256 * r)

\* bitcoin.var_int(i): compact size
var_int(i) ==
    IF i < 253 THEN <<i>>
    ELSE IF i < 65536 THEN <<253>> \o int_to_hex(i, 2)
    ELSE <<254>> \o int_to_hex(i, 4)

\* bitcoin.op_push / bitcoin.push_script: a data push of a byte string
push_script(data) ==
    IF Len(data) < OP_PUSHDATA1 THEN <<Len(data)>> \o data
    ELSE IF Len(data) <= 255 THEN <<OP_PUSHDATA1, Len(data)>> \o data
    ELSE <<OP_PUSHDATA2>> \o int_to_hex(Len(data), 2) \o data

\* bitcoinx.push_item: minimal push of a byte string
push_item(item) ==
    IF Len(item) = 0 THEN <<OP_0>>
    ELSE IF Len(item) = 1 /\ item[1] > 0 /\ item[1] <= 16 THEN <<OP_1 + item[1] - 1>>
    ELSE IF Len(item) = 1 /\ item[1] = 129 THEN <<OP_1NEGATE>>
    ELSE push_script(item)

\* bitcoinx.push_int for the values multisig_script passes (0 <= value < 128)
push_int(value) ==
    IF value = 0 THEN <<OP_0>>
    ELSE IF value <= 16 THEN <<OP_1 + value - 1>>
    ELSE <<1, value>>

\* crypto.sha256d / hash_160 stand-in: a position-weighted checksum in the
\* first byte of a digest of the hash's (shortened) width
RECURSIVE WeightedSum(_, _, _, _)
WeightedSum(b, lo, hi, salt) ==
    IF lo > hi THEN 0
    ELSE IF lo = hi THEN ((b[lo] + 1) * (((lo * salt) % 251) + 1)) % 251
    ELSE (WeightedSum(b, lo, (lo + hi) \div 2, salt)
          + WeightedSum(b, ((lo + hi) \div 2) + 1, hi, salt)) % 251

Checksum(b, salt) == (WeightedSum(b, 1, Len(b), salt) + Len(b)) % 251

sha256d(b) == <<Checksum(b, 7)>> \o Zeros(HashLen - 1)

H160Len == BodyLen + 1

hash_160(b) == <<Checksum(b, 11)>> \o Zeros(H160Len - 1)

\* ------------------------------------------------------------ _script_GetOp
\* The list of (opcode, vch) pairs the generator yields; i is 0-based as in
\* the source.  Truncated pushes yield short data and never raise.
PushSize(b, i, opcode) ==
    IF opcode = OP_PUSHDATA1 THEN (IF i < Len(b) THEN b[i + 1] ELSE 0)
    ELSE IF opcode = OP_PUSHDATA2
      THEN (IF i + 2 <= Len(b) THEN unpack_le(Slice(b, i, i + 2)) ELSE 0)
    ELSE IF opcode = OP_PUSHDATA4
      THEN (IF i + 4 <= Len(b) THEN unpack_le(Slice(b, i, i + 4)) ELSE 0)
    ELSE opcode

PushStart(i, opcode) ==
    IF opcode = OP_PUSHDATA1 THEN i + 1
    ELSE IF opcode = OP_PUSHDATA2 THEN i + 2
    ELSE IF opcode = OP_PUSHDATA4 THEN i + 4
    ELSE i

RECURSIVE GetOpFrom(_, _)
GetOpFrom(b, i) ==
    IF i >= Len(b) THEN <<>>
    ELSE IF b[i + 1] > OP_PUSHDATA4 THEN <<[op |-> b[i + 1], vch |-> <<>>]>> \o GetOpFrom(b, i + 1)
    ELSE Bind(PushSize(b, i + 1, b[i + 1]), LAMBDA nSize :
         Bind(PushStart(i + 1, b[i + 1]), LAMBDA start :
           <<[op |-> b[i + 1], vch |-> Slice(b, start, start + nSize)]>>
             \o GetOpFrom(b, start + nSize)))

_script_GetOp(b) == GetOpFrom(b, 0)

\* _match_decoded(decoded, to_match)
_match_decoded(decoded, to_match) ==
    /\ Len(decoded) = Len(to_match)
    /\ \A i \in 1..Len(decoded) :
          \/ to_match[i] = OP_PUSHDATA4 /\ decoded[i].op <= OP_PUSHDATA4 /\ decoded[i].op > 0
          \/ to_match[i] = decoded[i].op

\* _parse_sig(x_sig): the 'ff' placeholder becomes None
_parse_sig(x_sig) == [i \in 1..Len(x_sig) |-> IF x_sig[i] = NO_SIGNATURE THEN <<>> ELSE x_sig[i]]

\* ------------------------------------------------------------- public keys
\* A curve point is an identifier 1..NumKeys; 0 is a point no wallet key has.
KeyIds == 1..NumKeys

XBytes(k) == <<k>> \o Zeros(BodyLen - 1)
YBytes(k) == <<(k * 7 + 3) % 256>> \o Zeros(BodyLen - 1)

\* bitcoinx.PublicKey.to_bytes(compressed=...)
PublicKey_to_bytes(k, compressed) ==
    IF compressed THEN <<2 + (k % 2)>> \o XBytes(k) ELSE <<4>> \o XBytes(k) \o YBytes(k)

\* A PublicKey object, and the Address objects to_public_key may return
PubKey(k, compressed) == [t |-> "pub", k |-> k, c |-> compressed, h |-> <<>>]
Addr(t, h) == [t |-> t, k |-> 0, c |-> FALSE, h |-> h]
NoAddress == [t |-> "none", k |-> 0, c |-> FALSE, h |-> <<>>]
UnknownAddress == [t |-> "unknown", k |-> 0, c |-> FALSE, h |-> <<>>]

\* bitcoinx.PublicKey.from_bytes: the point, or point 0 when the bytes are no key
PointOfPair(pairs) == IF pairs = {} THEN PubKey(0, FALSE) ELSE PubKey((CHOOSE p \in pairs : TRUE)[1], (CHOOSE p \in pairs : TRUE)[2])

PublicKey_from_bytes(raw) ==
    PointOfPair({p \in KeyIds \X BOOLEAN : PublicKey_to_bytes(p[1], p[2]) = raw})

\* Address.to_script_bytes / P2PK_Output.to_script_bytes
P2PKH_script(h) == <<OP_DUP, OP_HASH160>> \o push_item(h) \o <<OP_EQUALVERIFY, OP_CHECKSIG>>
P2SH_script(h) == <<OP_HASH160>> \o push_item(h) \o <<OP_EQUAL>>
P2PK_script(pub) == push_item(PublicKey_to_bytes(pub.k, pub.c)) \o <<OP_CHECKSIG>>

Address_to_script_bytes(a) == IF a.t = "p2sh" THEN P2SH_script(a.h) ELSE P2PKH_script(a.h)

\* bitcoinx.classify_output_script, as far as XPublicKey uses it: the Address
\* of a P2PKH or P2SH script, NoAddress for anything else
classify_output_script(script) ==
    IF Len(script) = H160Len + 5 /\ script = P2PKH_script(Slice(script, 3, 3 + H160Len))
      THEN Addr("p2pkh", Slice(script, 3, 3 + H160Len))
    ELSE IF Len(script) = H160Len + 3 /\ script = P2SH_script(Slice(script, 2, 2 + H160Len))
      THEN Addr("p2sh", Slice(script, 2, 2 + H160Len))
    ELSE NoAddress

\* child derivation of a BIP32 key and of an old-keystore master key
Bip32Child(k, n) == ((k + n) % NumKeys) + 1
OldChild(k, n0, n1) == ((k + n0 + 2 * n1) % NumKeys) + 1

\* ---------------------------------------------------------------- XPublicKey
\* An XPublicKey is its raw bytes.  Lengths follow the source's layout
\* (1 + 78 + 2 + 2 and 1 + 64 + 2 + 2) with the shortened key body.
BIP32_RAW_LEN == 1 + (1 + BodyLen) + 2 + 2
OLD_RAW_LEN == 1 + 2 * BodyLen + 2 + 2

kind(raw) == raw[1]

\* the two 16-bit indices that end a BIP32 or old-keystore reference
path_of(raw) ==
    <<unpack_le(Slice(raw, Len(raw) - 4, Len(raw) - 2)),
      unpack_le(Slice(raw, Len(raw) - 2, Len(raw)))>>

\* XPublicKey._bip32_public_key: point 0 when the extended key is bad
bip32_child(raw, master, path) ==
    IF Len(raw) # BIP32_RAW_LEN \/ master.k = 0 \/ ~master.c THEN PubKey(0, TRUE)
    ELSE PubKey(Bip32Child(Bip32Child(master.k, path[1]), path[2]), TRUE)

_bip32_public_key(raw) ==
    bip32_child(raw, PublicKey_from_bytes(Slice(raw, 1, BIP32_RAW_LEN - 4)), path_of(raw))

\* XPublicKey._old_keystore_public_key
old_keystore_child(raw, mpk, path) ==
    IF Len(raw) # OLD_RAW_LEN \/ mpk.k = 0 THEN PubKey(0, FALSE)
    ELSE PubKey(OldChild(mpk.k, path[1], path[2]), FALSE)

_old_keystore_public_key(raw) ==
    old_keystore_child(raw, PublicKey_from_bytes(<<4>> \o Slice(raw, 1, OLD_RAW_LEN - 4)),
                       path_of(raw))

\* XPublicKey.to_public_key: a PublicKey or an Address; point 0 or NoAddress
\* stand for the ValueError / AssertionError raised on bytes that are no key
to_public_key(raw) ==
    IF kind(raw) \in {2, 3, 4} THEN PublicKey_from_bytes(raw)
    ELSE IF kind(raw) = 255 THEN _bip32_public_key(raw)
    ELSE IF kind(raw) = 254 THEN _old_keystore_public_key(raw)
    ELSE IF kind(raw) = 253 THEN classify_output_script(Tail(raw))
    ELSE NoAddress

\* XPublicKey.__init__: the exception constructing XPublicKey(raw) raises
XPublicKey_err(raw) ==
    IF Len(raw) = 0 THEN "IndexError"
    ELSE Bind(to_public_key(raw), LAMBDA pk :
           IF pk.t = "none" \/ (pk.t = "pub" /\ pk.k = 0) THEN "ValueError" ELSE "none")

\* bitcoinx.PublicKey.to_address
PublicKey_to_address(pk) ==
    IF pk.t = "pub" THEN Addr("p2pkh", hash_160(PublicKey_to_bytes(pk.k, pk.c))) ELSE pk

\* XPublicKey.to_address
to_address(raw) == PublicKey_to_address(to_public_key(raw))

\* XPublicKey.is_compressed
is_compressed(raw) == kind(raw) \notin {4, 254}

\* the four encodings of a signer reference
XPub_plain(k, compressed) == PublicKey_to_bytes(k, compressed)
XPub_bip32(m, n0, n1) == <<255>> \o PublicKey_to_bytes(m, TRUE) \o int_to_hex(n0, 2) \o int_to_hex(n1, 2)
XPub_old(m, n0, n1) == <<254>> \o XBytes(m) \o YBytes(m) \o int_to_hex(n0, 2) \o int_to_hex(n1, 2)
XPub_addr(k, compressed) == <<253>> \o P2PKH_script(hash_160(PublicKey_to_bytes(k, compressed)))

\* ----------------------------------------------------------- multisig_script
\* multisig_script(x_pubkeys, threshold) for a list of key byte strings;
\* its assertion is multisig_script_ok
multisig_script_ok(key_bytes, threshold) == 1 <= threshold /\ threshold <= Len(key_bytes)

\* multisig_script that ends with the threshold where the key count belongs
multisig_script_threshold_twice(key_bytes, threshold) ==
    push_int(threshold)
      \o Join([i \in 1..Len(key_bytes) |-> push_item(key_bytes[i])])
      \o push_int(threshold)
      \o <<OP_CHECKMULTISIG>>

multisig_script(key_bytes, threshold) ==
    push_int(threshold)
      \o Join([i \in 1..Len(key_bytes) |-> push_item(key_bytes[i])])
      \o push_int(Len(key_bytes))
      \o <<OP_CHECKMULTISIG>>

\* --------------------------------------------------------------------- txin
\* The txin dictionary.  A key the code may leave out holds Absent ('value',
\* and 'num_sig' of a coinbase input) or the empty sequence.
TxIn(type, prevout_hash, prevout_n, sequence, address, x_pubkeys, signatures, num_sig, scriptSig, value, scriptCode) ==
    [type |-> type, prevout_hash |-> prevout_hash, prevout_n |-> prevout_n,
     sequence |-> sequence, address |-> address, x_pubkeys |-> x_pubkeys,
     signatures |-> signatures, num_sig |-> num_sig, scriptSig |-> scriptSig,
     value |-> value, scriptCode |-> scriptCode]

\* the placeholder an operator returns next to an error
NoTxIn == TxIn("unknown", <<>>, 0, 0, NoAddress, <<>>, <<>>, 0, <<>>, Absent, <<>>)

\* [sig for sig in x_signatures if sig]
RECURSIVE NonEmpty(_)
NonEmpty(sigs) ==
    IF sigs = <<>> THEN <<>>
    ELSE IF Head(sigs) = <<>> THEN NonEmpty(Tail(sigs))
    ELSE <<Head(sigs)>> \o NonEmpty(Tail(sigs))

\* Transaction.is_txin_complete, for a txin that has the key 'signatures'
is_txin_complete(txin) ==
    Len(NonEmpty(txin.signatures)) = (IF txin.type = "coinbase" THEN 1 ELSE txin.num_sig)

\* ------------------------------------------------------- _parse_redeemScript
\* The first exception in a list of XPublicKey constructions
RECURSIVE FirstKeyErr(_)
FirstKeyErr(raws) ==
    IF raws = <<>> THEN "none"
    ELSE Bind(XPublicKey_err(Head(raws)), LAMBDA e :
           IF e # "none" THEN e ELSE FirstKeyErr(Tail(raws)))

NoRedeem(e) == [err |-> e, m |-> 0, n |-> 0, x_pubkeys |-> <<>>, address |-> NoAddress]

\* the list the decoded redeem script is matched against
match_multisig(m, n) ==
    <<OP_1 + m - 1>> \o [i \in 1..Max(n, 0) |-> OP_PUSHDATA4]
       \o <<OP_1 + n - 1, OP_CHECKMULTISIG>>

\* err is "none" when (m, n, x_pubkeys, address) is returned, "TypeError" when
\* None is returned (the caller's tuple unpacking then raises), and otherwise
\* the exception raised inside
\* _parse_redeemScript once the script matched: the keys, then the address
RedeemKeys(m, n, x_pubkeys, e) ==
    IF e # "none" THEN NoRedeem(e)
    ELSE IF ~multisig_script_ok(x_pubkeys, m) THEN NoRedeem("AssertionError")
    ELSE [err |-> "none", m |-> m, n |-> n, x_pubkeys |-> x_pubkeys,
          address |-> Addr("p2sh", hash_160(multisig_script(x_pubkeys, m)))]

\* _parse_redeemScript on the decoded script, m and n read from its ends
RedeemMatch(dec2, m, n, x_pubkeys) ==
    IF ~_match_decoded(dec2, match_multisig(m, n)) THEN NoRedeem("TypeError")
    ELSE RedeemKeys(m, n, x_pubkeys, FirstKeyErr(x_pubkeys))

RedeemDecoded(dec2) ==
    IF Len(dec2) < 2 THEN NoRedeem("IndexError")
    ELSE RedeemMatch(dec2, dec2[1].op - OP_1 + 1, dec2[Len(dec2) - 1].op - OP_1 + 1,
                     [i \in 1..(Len(dec2) - 3) |-> dec2[i + 1].vch])

_parse_redeemScript(s) == RedeemDecoded(_script_GetOp(s))

\* ---------------------------------------------------------- _parse_scriptSig
\* the p2pkh branch: the public key is constructed outside the try
ParseP2PKH(d, sig, x_pubkey) ==
    Bind(XPublicKey_err(x_pubkey), LAMBDA e :
      IF e # "none" THEN [err |-> e, d |-> d]
      ELSE [err |-> "none",
            d |-> [d EXCEPT !.type = "p2pkh", !.signatures = _parse_sig(<<sig>>),
                            !.x_pubkeys = <<x_pubkey>>, !.num_sig = 1,
                            !.address = to_address(x_pubkey)]])

\* the p2sh branch
ParseP2SH(d, x_sig, redeem) ==
    Bind(_parse_redeemScript(redeem), LAMBDA r :
      IF r.err # "none" THEN [err |-> r.err, d |-> d]
      ELSE [err |-> "none",
            d |-> [d EXCEPT !.type = "p2sh", !.num_sig = r.m,
                            !.signatures = _parse_sig(x_sig),
                            !.x_pubkeys = r.x_pubkeys, !.address = r.address]])

\* The dictionary d after the call, or the exception that escapes it
ParseDecoded(d, decoded) ==
    IF _match_decoded(decoded, <<OP_PUSHDATA4>>) THEN
      [err |-> "none",
       d |-> [d EXCEPT !.type = "p2pk", !.signatures = <<decoded[1].vch>>,
                       !.num_sig = 1, !.x_pubkeys = <<>>]]
    ELSE IF _match_decoded(decoded, <<OP_PUSHDATA4, OP_PUSHDATA4>>) THEN
      ParseP2PKH(d, decoded[1].vch, decoded[2].vch)
    ELSE IF ~_match_decoded(decoded,
                <<OP_0>> \o [i \in 1..(Len(decoded) - 1) |-> OP_PUSHDATA4])
      THEN [err |-> "none", d |-> d]
    ELSE ParseP2SH(d, [i \in 1..(Len(decoded) - 2) |-> decoded[i + 1].vch],
                   decoded[Len(decoded)].vch)

_parse_scriptSig(d, bytes) == ParseDecoded(d, _script_GetOp(bytes))

\* ------------------------------------------------------------ _BCDataStream
\* A read returns the value, the new cursor and the exception raised, if any.
Read(v, cur, err) == [v |-> v, cur |-> cur, err |-> err]

\* read_bytes: slicing; a read past the end returns what is there
read_bytes(input, cur, length) == Read(Slice(input, cur, cur + length), cur + length, "none")

\* _read_num for an unsigned format of the given width
_read_num(input, cur, width) ==
    IF cur + width > Len(input) THEN Read(0, cur, "SerializationError")
    ELSE Read(unpack_le(Slice(input, cur, cur + width)), cur + width, "none")

read_compact_size(input, cur) ==
    IF cur >= Len(input) THEN Read(0, cur, "SerializationError")
    ELSE IF input[cur + 1] < 253 THEN Read(input[cur + 1], cur + 1, "none")
    ELSE _read_num(input, cur + 1,
                   IF input[cur + 1] = 253 THEN 2 ELSE IF input[cur + 1] = 254 THEN 4 ELSE 8)

\* -------------------------------------------------------------- _parse_input
ParsedInput(err, d, cur) == [err |-> err, d |-> d, cur |-> cur]

\* the tail of _parse_input for an input that is not a coinbase
ParseSpend(input, d0, cur) ==
    Bind(_parse_scriptSig(d0, d0.scriptSig), LAMBDA p :
      IF p.err # "none" THEN ParsedInput(p.err, NoTxIn, cur)
      ELSE IF is_txin_complete(p.d) THEN ParsedInput("none", p.d, cur)
      ELSE Bind(_read_num(input, cur, 8), LAMBDA value :
             IF value.err # "none" THEN ParsedInput(value.err, NoTxIn, cur)
             ELSE ParsedInput("none", [p.d EXCEPT !.value = value.v], value.cur)))

\* _parse_input once the script and the sequence number are read
ParseScript(input, cur0, prevout_hash, n, scriptSig, sequence) ==
    IF sequence.err # "none" THEN ParsedInput(sequence.err, NoTxIn, cur0)
    ELSE IF prevout_hash = Zeros(HashLen) THEN
      ParsedInput("none",
                  TxIn("coinbase", prevout_hash, n.v, sequence.v, UnknownAddress,
                       <<>>, <<>>, Absent, scriptSig.v, Absent, <<>>),
                  sequence.cur)
    ELSE
      ParseSpend(input,
                 TxIn("unknown", prevout_hash, n.v, sequence.v, NoAddress,
                      <<>>, <<>>, 0, scriptSig.v, Absent, <<>>),
                 sequence.cur)

\* _parse_input once the outpoint and the script length are read
ParseOutpoint(input, cur0, h, n, slen) ==
    IF n.err # "none" THEN ParsedInput(n.err, NoTxIn, cur0)
    ELSE IF slen.err # "none" THEN ParsedInput(slen.err, NoTxIn, cur0)
    ELSE ParseScript(input, cur0, Reverse(h.v), n,
                     read_bytes(input, slen.cur, slen.v),
                     _read_num(input, slen.cur + slen.v, 4))

\* read_bytes moves the cursor by the length asked for, read_uint32 by 4
_parse_input(input, cur0) ==
    ParseOutpoint(input, cur0,
                  read_bytes(input, cur0, HashLen),
                  _read_num(input, cur0 + HashLen, 4),
                  read_compact_size(input, cur0 + HashLen + 4))

\* [_parse_input(vds) for i in range(n_vin)]
RECURSIVE ParseInputs(_, _, _)
ParseInputs(input, cur, count) ==
    IF count = 0 THEN [err |-> "none", inputs |-> <<>>, cur |-> cur]
    ELSE Bind(_parse_input(input, cur), LAMBDA one :
           IF one.err # "none" THEN [err |-> one.err, inputs |-> <<>>, cur |-> cur]
           ELSE Bind(ParseInputs(input, one.cur, count - 1), LAMBDA rest :
                  [err |-> rest.err, inputs |-> <<one.d>> \o rest.inputs, cur |-> rest.cur]))

\* ------------------------------------------------------------------ outputs
TxOutput(value, script_pubkey) == [value |-> value, script_pubkey |-> script_pubkey]

\* bitcoinx.TxOutput.to_bytes
TxOutput_to_bytes(output) ==
    int_to_hex(output.value, 8) \o var_int(Len(output.script_pubkey)) \o output.script_pubkey

\* bitcoinx read_varint on vds.read_bytes: a short read raises struct.error
read_varint(input, cur) ==
    IF cur >= Len(input) THEN Read(0, cur, "struct.error")
    ELSE IF input[cur + 1] < 253 THEN Read(input[cur + 1], cur + 1, "none")
    ELSE Bind(IF input[cur + 1] = 253 THEN 2 ELSE IF input[cur + 1] = 254 THEN 4 ELSE 8,
              LAMBDA width :
                IF cur + 1 + width > Len(input) THEN Read(0, cur, "struct.error")
                ELSE Read(unpack_le(Slice(input, cur + 1, cur + 1 + width)),
                          cur + 1 + width, "none"))

\* bitcoinx.TxOutput.read: read_le_int64 then read_varbytes
TxOutput_read(input, cur) ==
    IF cur + 8 > Len(input) THEN Read(TxOutput(0, <<>>), cur, "struct.error")
    ELSE Bind(read_varint(input, cur + 8), LAMBDA slen :
           IF slen.err # "none" THEN Read(TxOutput(0, <<>>), cur, slen.err)
           ELSE IF slen.cur + slen.v > Len(input) \/ slen.v = BigNum
             THEN Read(TxOutput(0, <<>>), cur, "struct.error")
           ELSE Read(TxOutput(unpack_le(Slice(input, cur, cur + 8)),
                              Slice(input, slen.cur, slen.cur + slen.v)),
                     slen.cur + slen.v, "none"))

\* the elements bitcoinx.read_list reads after the count
RECURSIVE ReadOutputs(_, _, _)
ReadOutputs(input, cur, count) ==
    IF count = 0 THEN [err |-> "none", outputs |-> <<>>, cur |-> cur]
    ELSE Bind(TxOutput_read(input, cur), LAMBDA one :
           IF one.err # "none" THEN [err |-> one.err, outputs |-> <<>>, cur |-> cur]
           ELSE Bind(ReadOutputs(input, one.cur, count - 1), LAMBDA rest :
                  [err |-> rest.err, outputs |-> <<one.v>> \o rest.outputs, cur |-> rest.cur]))

\* bitcoinx.read_list(vds.read_bytes, TxOutput.read)
ReadCounted(input, cur, n_vout) ==
    IF n_vout.err # "none" THEN [err |-> n_vout.err, outputs |-> <<>>, cur |-> cur]
    ELSE ReadOutputs(input, n_vout.cur, n_vout.v)

read_list(input, cur) == ReadCounted(input, cur, read_varint(input, cur))

\* --------------------------------------------------------------- deserialize
Deserialized(err, version, ins, outs, lockTime) ==
    [err |-> err, version |-> version, inputs |-> ins, outputs |-> outs, lockTime |-> lockTime]

\* deserialize once the outputs are read
DeserializeLockTime(version, ins, outs, lockTime) ==
    IF outs.err # "none" THEN Deserialized(outs.err, 0, <<>>, <<>>, 0)
    ELSE IF lockTime.err # "none" THEN Deserialized(lockTime.err, 0, <<>>, <<>>, 0)
    ELSE Deserialized("none", version, ins.inputs, outs.outputs, lockTime.v)

DeserializeTail(raw, version, ins, outs) ==
    DeserializeLockTime(version, ins, outs, _read_num(raw, outs.cur, 4))

\* deserialize once the inputs are read
DeserializeOutputs(raw, version, ins) ==
    IF ins.err # "none" THEN Deserialized(ins.err, 0, <<>>, <<>>, 0)
    ELSE DeserializeTail(raw, version, ins, read_list(raw, ins.cur))

\* deserialize without the assertion on the input count
DeserializeInputs_zero_allowed(raw, version, n_vin) ==
    IF version.err # "none" THEN Deserialized(version.err, 0, <<>>, <<>>, 0)
    ELSE IF n_vin.err # "none" THEN Deserialized(n_vin.err, 0, <<>>, <<>>, 0)
    ELSE DeserializeOutputs(raw, version.v, ParseInputs(raw, n_vin.cur, n_vin.v))

\* deserialize once the version and the input count are read
DeserializeInputs(raw, version, n_vin) ==
    IF version.err # "none" THEN Deserialized(version.err, 0, <<>>, <<>>, 0)
    ELSE IF n_vin.err # "none" THEN Deserialized(n_vin.err, 0, <<>>, <<>>, 0)
    ELSE IF n_vin.v = 0 THEN Deserialized("AssertionError", 0, <<>>, <<>>, 0)
    ELSE DeserializeOutputs(raw, version.v, ParseInputs(raw, n_vin.cur, n_vin.v))

deserialize(raw) ==
    DeserializeInputs(raw, _read_num(raw, 0, 4), read_compact_size(raw, 4))

\* -------------------------------------------------------------- get_siglist
\* [x_pubkey.to_public_key().to_bytes() ...]: an Address has no to_bytes
RECURSIVE Realise(_)
Realise(x_pubkeys) ==
    IF x_pubkeys = <<>> THEN [err |-> "none", keys |-> <<>>]
    ELSE Bind(to_public_key(Head(x_pubkeys)), LAMBDA pk :
           IF pk.t # "pub" THEN [err |-> "AttributeError", keys |-> <<>>]
           ELSE Bind(Realise(Tail(x_pubkeys)), LAMBDA rest :
                  [err |-> rest.err,
                   keys |-> <<PublicKey_to_bytes(pk.k, pk.c)>> \o rest.keys]))

SigList(err, x_pubkeys, sig_list) == [err |-> err, x_pubkeys |-> x_pubkeys, sig_list |-> sig_list]

\* Transaction.get_siglist(txin, estimate_size=False)
Realised(real, signatures) == SigList(real.err, real.keys, signatures)

\* get_siglist that writes the x_pubkeys of a complete input as they are
get_siglist_unrealised(txin) ==
    IF Len(NonEmpty(txin.signatures)) = txin.num_sig
      THEN SigList("none", txin.x_pubkeys, NonEmpty(txin.signatures))
      ELSE SigList("none", txin.x_pubkeys,
                   [j \in 1..Len(txin.signatures) |->
                      IF txin.signatures[j] # <<>> THEN txin.signatures[j]
                      ELSE NO_SIGNATURE])

get_siglist(txin) ==
    IF Len(NonEmpty(txin.signatures)) = txin.num_sig
      THEN Realised(Realise(txin.x_pubkeys), NonEmpty(txin.signatures))
      ELSE SigList("none", txin.x_pubkeys,
                   [j \in 1..Len(txin.signatures) |->
                      IF txin.signatures[j] # <<>> THEN txin.signatures[j]
                      ELSE NO_SIGNATURE])

Script(err, script) == [err |-> err, script |-> script]

\* the branch of input_script on the type, after get_siglist returned
ScriptOfType(txin, x_pubkeys, script) ==
    IF txin.type = "p2pk" THEN Script("none", script)
    ELSE IF txin.type = "p2sh" THEN
      IF ~multisig_script_ok(x_pubkeys, txin.num_sig) THEN Script("AssertionError", <<>>)
      ELSE Script("none", <<OP_0>> \o script
                            \o push_script(multisig_script(x_pubkeys, txin.num_sig)))
    ELSE IF txin.type = "p2pkh" THEN
      IF x_pubkeys = <<>> THEN Script("IndexError", <<>>)
      ELSE Script("none", script \o push_script(x_pubkeys[1]))
    ELSE Script("none", txin.scriptSig)

\* Transaction.input_script(txin, estimate_size=False)
ScriptOfSigs(txin, sl) ==
    IF sl.err # "none" THEN Script(sl.err, <<>>)
    ELSE ScriptOfType(txin, sl.x_pubkeys,
                      Join([j \in 1..Len(sl.sig_list) |-> push_script(sl.sig_list[j])]))

input_script(txin) ==
    IF txin.type = "coinbase" THEN Script("none", txin.scriptSig)
    ELSE ScriptOfSigs(txin, get_siglist(txin))

\* Transaction.serialize_outpoint
serialize_outpoint(txin) == Reverse(txin.prevout_hash) \o int_to_hex(txin.prevout_n, 4)

Ser(err, s) == [err |-> err, s |-> s]

\* Transaction.serialize_input(txin, script, estimate_size=False); a coinbase
\* txin has no 'signatures' for is_txin_complete to read
serialize_input(txin, script) ==
    IF txin.value # Absent /\ txin.type = "coinbase" THEN Ser("KeyError", <<>>)
    ELSE Ser("none",
             serialize_outpoint(txin) \o var_int(Len(script)) \o script
                \o int_to_hex(txin.sequence, 4)
                \o (IF txin.value # Absent /\ ~is_txin_complete(txin)
                    THEN int_to_hex(txin.value, 8) ELSE <<>>))

\* ------------------------------------------------------------------ serialize
\* A transaction's fields as a record, for the operators that read them
Tx(version, locktime, inputs, outputs) ==
    [version |-> version, locktime |-> locktime, inputs |-> inputs, outputs |-> outputs]

\* serialize_input(txin, input_script(txin)) of one input
SerializeScript(txin, scr) ==
    IF scr.err # "none" THEN Ser(scr.err, <<>>) ELSE serialize_input(txin, scr.script)

SerializeTxin(txin) == SerializeScript(txin, input_script(txin))

\* ''.join(serialize_input(...) for txin in inputs)
RECURSIVE SerializeInputs(_)
SerializeInputs(inputs) ==
    IF inputs = <<>> THEN Ser("none", <<>>)
    ELSE Bind(SerializeTxin(Head(inputs)), LAMBDA one :
           IF one.err # "none" THEN one
           ELSE Bind(SerializeInputs(Tail(inputs)), LAMBDA rest :
                  Ser(rest.err, one.s \o rest.s)))

\* b''.join(output.to_bytes() for output in outputs)
SerializeOutputs(outputs) == Join([k \in 1..Len(outputs) |-> TxOutput_to_bytes(outputs[k])])

\* Transaction.serialize(estimate_size=False)
SerializeWith(tx, txins) ==
    IF txins.err # "none" THEN Ser(txins.err, <<>>)
    ELSE Ser("none",
             int_to_hex(tx.version, 4)
               \o var_int(Len(tx.inputs)) \o txins.s
               \o var_int(Len(tx.outputs)) \o SerializeOutputs(tx.outputs)
               \o int_to_hex(tx.locktime, 4))

serialize(tx) == SerializeWith(tx, SerializeInputs(tx.inputs))

\* ------------------------------------------------------------------ preimage
\* Transaction.nHashType
nHashType == SIGHASH_ALL + SIGHASH_FORKID

\* the p2sh branch of get_preimage_script: multisig_script asserts, then
\* calls to_bytes on every element
PreimageP2SH(txin) ==
    IF ~multisig_script_ok(txin.x_pubkeys, txin.num_sig) THEN Script("AssertionError", <<>>)
    ELSE Bind(Realise(txin.x_pubkeys), LAMBDA real :
           IF real.err # "none" THEN Script(real.err, <<>>)
           ELSE Script("none", multisig_script(real.keys, txin.num_sig)))

\* the p2pk branch: P2PK_Output of the first key
PreimageP2PK(txin) ==
    IF txin.x_pubkeys = <<>> THEN Script("IndexError", <<>>)
    ELSE Bind(to_public_key(txin.x_pubkeys[1]), LAMBDA pk :
           IF pk.t # "pub" THEN Script("AttributeError", <<>>)
           ELSE Script("none", P2PK_script(pk)))

\* Transaction.get_preimage_script
get_preimage_script(txin) ==
    IF txin.type = "p2pkh" THEN
      IF txin.address.t \in {"none", "unknown"} THEN Script("AttributeError", <<>>)
      ELSE Script("none", Address_to_script_bytes(txin.address))
    ELSE IF txin.type = "p2sh" THEN PreimageP2SH(txin)
    ELSE IF txin.type = "p2pk" THEN PreimageP2PK(txin)
    ELSE IF txin.type = "unknown" THEN
      IF txin.scriptCode = <<>> THEN Script("KeyError", <<>>)
      ELSE Script("none", txin.scriptCode)
    ELSE Script("RuntimeError", <<>>)

\* hashPrevouts over the outpoints and the signatures of the inputs
hashPrevouts_with_signatures(inputs) ==
    sha256d(Join([k \in 1..Len(inputs) |->
                    serialize_outpoint(inputs[k]) \o Join(inputs[k].signatures)]))

hashPrevouts(inputs) ==
    sha256d(Join([k \in 1..Len(inputs) |-> serialize_outpoint(inputs[k])]))

hashSequence(inputs) ==
    sha256d(Join([k \in 1..Len(inputs) |-> int_to_hex(inputs[k].sequence, 4)]))

hashOutputs(outputs) == sha256d(SerializeOutputs(outputs))

\* the preimage of input txin once its script and value are known
Preimage(tx, txin, preimage_script) ==
    int_to_hex(tx.version, 4) \o hashPrevouts(tx.inputs) \o hashSequence(tx.inputs)
      \o serialize_outpoint(txin)
      \o var_int(Len(preimage_script)) \o preimage_script
      \o int_to_hex(txin.value, 8)
      \o int_to_hex(txin.sequence, 4) \o hashOutputs(tx.outputs)
      \o int_to_hex(tx.locktime, 4) \o int_to_hex(nHashType, 4)

\* serialize_preimage that looks for the value before it builds the script
PreimageWith_value_first(tx, txin, preimage_script) ==
    IF txin.value = Absent THEN Ser("InputValueMissing", <<>>)
    ELSE IF preimage_script.err # "none" THEN Ser(preimage_script.err, <<>>)
    ELSE Ser("none", Preimage(tx, txin, preimage_script.script))

\* Transaction.serialize_preimage(i), i counted from 1
PreimageWith(tx, txin, preimage_script) ==
    IF preimage_script.err # "none" THEN Ser(preimage_script.err, <<>>)
    ELSE IF txin.value = Absent THEN Ser("InputValueMissing", <<>>)
    ELSE Ser("none", Preimage(tx, txin, preimage_script.script))

serialize_preimage(tx, i) == PreimageWith(tx, tx.inputs[i], get_preimage_script(tx.inputs[i]))

\* Transaction.preimage_hash(i)
HashOf(p) == [err |-> p.err, h |-> IF p.err = "none" THEN sha256d(p.s) ELSE <<>>]

preimage_hash(tx, i) == HashOf(serialize_preimage(tx, i))

\* --------------------------------------------------------------- signatures
\* A DER signature by the private key of point k over a digest, made with
\* nonce n: the signer and the digest's first byte are what verification
\* and public key recovery read from it.
DerSig(k, digest, n) == <<48, k, digest[1], n>>

\* bitcoinx.PrivateKey.sign is deterministic (nonce 0 here)
PrivateKey_sign(sec, pre_hash) == DerSig(sec, pre_hash, 0)

\* Transaction.sign_txin(i, sec)
SignHash(sec, pre_hash) ==
    [err |-> pre_hash.err,
     sig |-> IF pre_hash.err = "none"
             THEN PrivateKey_sign(sec, pre_hash.h) \o int_to_hex(nHashType, 1) ELSE <<>>]

\* sign_txin that returns the DER signature without the sighash-type byte
sign_txin_no_hashtype(tx, i, sec) ==
    [SignHash(sec, preimage_hash(tx, i)) EXCEPT !.sig = IF @ = <<>> THEN @ ELSE SubSeq(@, 1, Len(@) - 1)]

sign_txin(tx, i, sec) == SignHash(sec, preimage_hash(tx, i))

\* ------------------------------------------------------ public key recovery
\* bitcoinx.PublicKey.from_recoverable_signature(der + recid, pre_hash): the
\* signer's point for the one recovery id that fits a signature made over
\* pre_hash, and for every other combination a point no wallet key has
Recover(der, pre_hash, recid) ==
    IF Len(der) = 4 /\ recid = der[4] % 4 /\ der[3] = pre_hash[1] THEN der[2] ELSE 0

\* pubkeys.index(public_key) + 1, or 0 when public_key is not in pubkeys
RECURSIVE IndexOfPoint(_, _, _)
IndexOfPoint(pubkeys, k, j) ==
    IF j > Len(pubkeys) THEN 0
    ELSE IF pubkeys[j].t = "pub" /\ pubkeys[j].k = k THEN j
    ELSE IndexOfPoint(pubkeys, k, j + 1)

\* the slot update_signatures' loop over recid finds for one input, 0 if none
RECURSIVE MatchRecid(_, _, _, _)
MatchRecid(der, pre_hash, pubkeys, recid) ==
    IF recid > 3 THEN 0
    ELSE Bind(Recover(der, pre_hash, recid), LAMBDA public_key :
         Bind(IF public_key = 0 THEN 0 ELSE IndexOfPoint(pubkeys, public_key, 1), LAMBDA j :
           IF j # 0 THEN j ELSE MatchRecid(der, pre_hash, pubkeys, recid + 1)))

\* ---------------------------------------------------------------- keypairs
\* keypairs maps an XPublicKey to (sec, compressed): a set of records with
\* distinct x_pubkey.  A private key is named by its point.
KeyPair(x_pubkey, sec, compressed) == [x_pubkey |-> x_pubkey, sec |-> sec, compressed |-> compressed]

InKeypairs(x_pubkey, keypairs) == \E kp \in keypairs : kp.x_pubkey = x_pubkey
LookupKeypair(x_pubkey, keypairs) == CHOOSE kp \in keypairs : kp.x_pubkey = x_pubkey

\* ------------------------------------------------------------ Transaction.sign
Signed(err, inputs) == [err |-> err, inputs |-> inputs]

\* the assignment of sign with the key replaced whatever its kind
SignSlot_any_kind(txin, j, kp, sig) ==
    [txin EXCEPT !.signatures = [txin.signatures EXCEPT ![j] = sig],
                 !.x_pubkeys = [txin.x_pubkeys EXCEPT
                                  ![j] = PublicKey_to_bytes(kp.sec, kp.compressed)]]

\* txin after sign stored sig in slot j with keypair kp
SignSlot(txin, j, kp, sig) ==
    [txin EXCEPT !.signatures = [txin.signatures EXCEPT ![j] = sig],
                 !.x_pubkeys = IF kind(txin.x_pubkeys[j]) = 253
                               THEN [txin.x_pubkeys EXCEPT
                                       ![j] = PublicKey_to_bytes(kp.sec, kp.compressed)]
                               ELSE txin.x_pubkeys]

\* The loop over the keys of input i from key j on; returns the inputs as
\* the loop leaves them and the exception that ended it, if any.
RECURSIVE SignKeys(_, _, _, _)

\* the body of the loop for key j, found in keypairs as kp
SignKey(tx, i, j, keypairs, kp, sig) ==
    IF sig.err # "none" THEN Signed(sig.err, tx.inputs)
    ELSE IF j > Len(tx.inputs[i].signatures) THEN Signed("IndexError", tx.inputs)
    ELSE SignKeys([tx EXCEPT !.inputs[i] = SignSlot(tx.inputs[i], j, kp, sig.sig)],
                  i, j + 1, keypairs)

SignKeys(tx, i, j, keypairs) ==
    IF j > Len(tx.inputs[i].x_pubkeys) THEN Signed("none", tx.inputs)
    ELSE IF Len(NonEmpty(tx.inputs[i].signatures)) = tx.inputs[i].num_sig
      THEN Signed("none", tx.inputs)
    ELSE IF ~InKeypairs(tx.inputs[i].x_pubkeys[j], keypairs)
      THEN SignKeys(tx, i, j + 1, keypairs)
    ELSE SignKey(tx, i, j, keypairs, LookupKeypair(tx.inputs[i].x_pubkeys[j], keypairs),
                 sign_txin(tx, i, LookupKeypair(tx.inputs[i].x_pubkeys[j], keypairs).sec))

\* the loop over the inputs from input i on
RECURSIVE SignInputs(_, _, _)
SignInputs(tx, i, keypairs) ==
    IF i > Len(tx.inputs) THEN Signed("none", tx.inputs)
    ELSE IF tx.inputs[i].type = "coinbase" THEN Signed("KeyError", tx.inputs)
    ELSE Bind(SignKeys(tx, i, 1, keypairs), LAMBDA r :
           IF r.err # "none" THEN r
           ELSE SignInputs([tx EXCEPT !.inputs = r.inputs], i + 1, keypairs))

\* ------------------------------------------------- Transaction.signature_count
RECURSIVE signature_count(_)
signature_count(inputs) ==
    IF inputs = <<>> THEN [s |-> 0, r |-> 0]
    ELSE IF Head(inputs).type = "coinbase" THEN signature_count(Tail(inputs))
    ELSE Bind(signature_count(Tail(inputs)), LAMBDA rest :
           [s |-> rest.s + Len(NonEmpty(Head(inputs).signatures)),
            r |-> rest.r + Head(inputs).num_sig])

\* Transaction.is_complete, on the list self.inputs() returns
is_complete(inputs) == Bind(signature_count(inputs), LAMBDA c : c.r = c.s)

\* ------------------------------------------- Transaction.update_signatures
Updated(err, inputs, raw_set) == [err |-> err, inputs |-> inputs, raw_set |-> raw_set]

\* Transaction.add_signature_to_txin on a txin
add_signature_to_txin(txin, signingPos, sig) ==
    [txin EXCEPT !.signatures = [txin.signatures EXCEPT ![signingPos] = sig],
                 !.scriptSig = <<>>]

\* The loop over the inputs from input i on.  raw_set tells whether self.raw
\* still holds a value (add_signature_to_txin clears it).
RECURSIVE UpdateInputs(_, _, _, _)

\* update_signatures whose loop raises when no recovery id fits a declared key
UpdateSlot_mismatch_fatal(tx, i, signatures, raw_set, j) ==
    IF j = 0 THEN Updated("ValueError", tx.inputs, raw_set)
    ELSE IF j > Len(tx.inputs[i].signatures) THEN Updated("IndexError", tx.inputs, raw_set)
    ELSE UpdateInputs(
           [tx EXCEPT !.inputs[i] =
              add_signature_to_txin(tx.inputs[i], j, signatures[i] \o <<nHashType>>)],
           i + 1, signatures, FALSE)

\* the end of the loop body for input i: the signature goes to slot j
UpdateSlot(tx, i, signatures, raw_set, j) ==
    IF j = 0 THEN UpdateInputs(tx, i + 1, signatures, raw_set)
    ELSE IF j > Len(tx.inputs[i].signatures) THEN Updated("IndexError", tx.inputs, raw_set)
    ELSE UpdateInputs(
           [tx EXCEPT !.inputs[i] =
              add_signature_to_txin(tx.inputs[i], j, signatures[i] \o <<nHashType>>)],
           i + 1, signatures, FALSE)

\* the loop body for input i once its preimage hash is computed
UpdateInput(tx, i, signatures, raw_set, pre_hash) ==
    IF pre_hash.err # "none" THEN Updated(pre_hash.err, tx.inputs, raw_set)
    ELSE UpdateSlot(tx, i, signatures, raw_set,
                    MatchRecid(signatures[i], pre_hash.h,
                               [k \in 1..Len(tx.inputs[i].x_pubkeys) |->
                                  to_public_key(tx.inputs[i].x_pubkeys[k])], 0))

UpdateInputs(tx, i, signatures, raw_set) ==
    IF i > Len(tx.inputs) THEN Updated("none", tx.inputs, raw_set)
    ELSE IF tx.inputs[i].type = "coinbase" THEN Updated("TypeError", tx.inputs, raw_set)
    ELSE IF \E k \in 1..Len(tx.inputs[i].signatures) :
               tx.inputs[i].signatures[k] = signatures[i] \o <<nHashType>>
      THEN UpdateInputs(tx, i + 1, signatures, raw_set)
    ELSE UpdateInput(tx, i, signatures, raw_set, preimage_hash(tx, i))

\* ------------------------------------------------- Transaction.BIP_LI01_sort
\* lexicographic order of byte strings (of hex strings)
RECURSIVE BytesLess(_, _)
BytesLess(a, b) ==
    IF b = <<>> THEN FALSE
    ELSE IF a = <<>> THEN TRUE
    ELSE IF Head(a) # Head(b) THEN Head(a) < Head(b)
    ELSE BytesLess(Tail(a), Tail(b))

InputLess(a, b) ==
    \/ BytesLess(a.prevout_hash, b.prevout_hash)
    \/ a.prevout_hash = b.prevout_hash /\ a.prevout_n < b.prevout_n

OutputLess(a, b) ==
    \/ a.value < b.value
    \/ a.value = b.value /\ BytesLess(a.script_pubkey, b.script_pubkey)

\* the order of the sort key: inputs by (prevout_hash, prevout_n), outputs by
\* (value, script_pubkey)
KeyLess(what, a, b) == IF what = "inputs" THEN InputLess(a, b) ELSE OutputLess(a, b)

\* list.sort: stable insertion of each element after the elements not greater
RECURSIVE InsertSorted(_, _, _)
InsertSorted(sorted, x, what) ==
    IF sorted = <<>> THEN <<x>>
    ELSE IF KeyLess(what, x, Head(sorted)) THEN <<x>> \o sorted
    ELSE <<Head(sorted)>> \o InsertSorted(Tail(sorted), x, what)

RECURSIVE SortBy(_, _)
SortBy(xs, what) ==
    IF xs = <<>> THEN <<>>
    ELSE InsertSorted(SortBy(SubSeq(xs, 1, Len(xs) - 1), what), xs[Len(xs)], what)

\* ================================================================ the wallet
\* Signer references the wallet hands out, one per encoding, with the private
\* key and compression flag the wallet puts in keypairs for each.
XK1 == XPub_plain(1, TRUE)
XK2 == XPub_plain(2, TRUE)
XB == XPub_bip32(1, 0, 1)
XO == XPub_old(1, 0, 0)
XA == XPub_addr(2, TRUE)

WalletKeypairs ==
    {KeyPair(XK1, 1, TRUE), KeyPair(XK2, 2, TRUE),
     KeyPair(XB, to_public_key(XB).k, TRUE), KeyPair(XO, to_public_key(XO).k, FALSE),
     KeyPair(XA, 2, TRUE)}

\* the keypairs arguments sign is called with: the keys of one private key,
\* or all of them
KeypairChoices ==
    {{kp \in WalletKeypairs : kp.sec = k} : k \in KeyIds} \cup {WalletKeypairs}

\* a transaction id, as the hex string prevout_hash holds
TxId(n) == <<n>> \o Zeros(HashLen - 1)

\* Inputs as the wallet builds them for from_io / add_inputs
P2PKH_in(n, x_pubkey, value) ==
    TxIn("p2pkh", TxId(n), 0, 5, to_address(x_pubkey), <<x_pubkey>>, << <<>> >>, 1,
         <<>>, value, <<>>)

P2SH_in(n, x_pubkeys, m, value) ==
    TxIn("p2sh", TxId(n), 1, 5,
         Addr("p2sh", hash_160(multisig_script(Realise(x_pubkeys).keys, m))),
         x_pubkeys, [j \in 1..Len(x_pubkeys) |-> <<>>], m, <<>>, value, <<>>)

P2PK_in(n, x_pubkey, value) ==
    TxIn("p2pk", TxId(n), 0, 5, to_address(x_pubkey), <<x_pubkey>>, << <<>> >>, 1,
         <<>>, value, <<>>)

Unknown_in(n, scriptSig, value, scriptCode) ==
    TxIn("unknown", TxId(n), 0, 5, NoAddress, <<>>, <<>>, 0, scriptSig, value, scriptCode)

Coinbase_in(scriptSig) ==
    TxIn("coinbase", Zeros(HashLen), 0, 5, UnknownAddress, <<>>, <<>>, Absent,
         scriptSig, Absent, <<>>)

\* the inputs a transaction is constructed from
InputPool ==
    << P2PKH_in(11, XK1, 1000),
       P2PKH_in(12, XB, 1000),
       P2PKH_in(13, XO, 1000),
       P2PKH_in(14, XA, 1000),
       P2SH_in(15, <<XK1, XK2>>, 1, 300),
       P2SH_in(16, <<XK1, XB>>, 2, 300),
       P2PK_in(17, XK1, 300),
       P2PKH_in(18, XK2, Absent),
       Unknown_in(19, <<OP_1>>, 300, <<OP_1>>),
       Unknown_in(20, <<OP_1, OP_1>>, Absent, <<>>),
       Coinbase_in(<<3, 1, 2, 3>>) >>

\* the inputs add_inputs is called with
AddPool == <<P2PKH_in(2, XB, 1000), P2PKH_in(8, XK2, Absent)>>

FirstOutput == TxOutput(500, P2PKH_script(hash_160(XK1)))
AddedOutput == TxOutput(200, <<OP_1>>)

\* Serialized transactions a Transaction object is constructed from: a
\* broadcast transaction, fully signed, a 2-of-2 transaction one of the two
\* cosigners has signed, and an unsigned transaction with two inputs
SignedRaw(txin, keypairs) ==
    serialize(Tx(1, 0, SignInputs(Tx(1, 0, <<txin>>, <<FirstOutput>>), 1, keypairs).inputs,
                 <<FirstOutput>>)).s

RawPool ==
    { SignedRaw(InputPool[1], WalletKeypairs),
      SignedRaw(InputPool[6], {KeyPair(XK1, 1, TRUE)}),
      serialize(Tx(1, 0, <<InputPool[5], AddPool[1]>>, <<FirstOutput>>)).s }

\* ================================================= WalletStorage: the document
\* The document is a dictionary from keys to values.  A key is a string, an
\* int or a bytes object; a string or an int is named by a number.
StrKey(n) == [t |-> "str", n |-> n]
IntKey(n) == [t |-> "int", n |-> n]
BytesKey(n) == [t |-> "bytes", n |-> n]

\* A value has a type (str, int, bool, list, tuple, set, None) and a content.
\* obj tells whether the caller holds a reference to this very object.
Val(t, v, obj) == [t |-> t, v |-> v, obj |-> obj]
None == Val("None", <<>>, 0)

\* the longest list the caller builds
MaxAppend == 2

\* the calls made on a store
MaxStoreCalls == 5

\* Python == on two values
Same(a, b) == a.t = b.t /\ a.v = b.v

\* two documents with the same keys and equal values
SameDocument(d, e) == DOMAIN d = DOMAIN e /\ \A k \in DOMAIN d : Same(d[k], e[k])

\* copy.deepcopy(value): a new object
deepcopy(value) == [value EXCEPT !.obj = 0]

\* json.dumps(x) raises TypeError for bytes and for a set
json_dumps_raises(x) == x.t \in {"bytes", "set"}

\* what json.dumps writes for a key and for a value: an int key becomes the
\* string of its digits, a tuple becomes an array
JsonKey(key) == IF key.t = "int" THEN StrKey(100 + key.n) ELSE key
JsonValue(value) == Val(IF value.t = "tuple" THEN "list" ELSE value.t, value.v, 0)

\* json.dumps(data, sort_keys=True) sorts the keys and raises TypeError when
\* a str key and an int key are compared
sort_keys_raises(d) == \E k1, k2 \in DOMAIN d : k1.t # k2.t

\* the JSON text of a document, as the object it denotes
json_dumps(d) ==
    [j \in {JsonKey(k) : k \in DOMAIN d} |->
       JsonValue(d[CHOOSE k \in DOMAIN d : JsonKey(k) = j])]

\* json.loads(s): an array is read as a list
json_loads(s) == [j \in DOMAIN s |-> Val(s[j].t, s[j].v, 0)]

\* The content of the wallet file: the JSON text, encrypted to the public key
\* of a password when enc is not 0.  Absent marks a file that does not exist.
Content(enc, doc) == [enc |-> enc, doc |-> doc]
NoFile == Content(Absent, <<>>)

\* zlib.compress and PublicKey.encrypt_message_to_base64 when pubkey is set
encrypt_message(s, key) == Content(key, s)

\* the keys __init__ and set_password write
K_tx_store_aeskey == StrKey(2)
K_wallet_author == StrKey(3)
K_seed_version == StrKey(4)
K_use_encryption == StrKey(5)

FINAL_SEED_VERSION == 19

\* the keys and values the caller uses: 'a', 1 and b'a'; a string, a tuple
\* and a set
CallerKeys == {StrKey(1), IntKey(1), BytesKey(1)}
AString == Val("str", <<1>>, 0)
ATuple == Val("tuple", <<1>>, 0)
ASet == Val("set", <<1>>, 0)
ADefault == Val("str", <<2>>, 0)

\* the passwords: the wallet's, and a wrong one
Password == 1
WrongPassword == 2

\* the list the caller holds: its content, and the call that gave it
Held(some, v, via, key) == [some |-> some, v |-> v, via |-> via, key |-> key]
NotHeld == Held(FALSE, <<>>, "none", StrKey(0))

StoreOp(name, err, key, value, result, thread, temp) ==
    [name |-> name, err |-> err, key |-> key, value |-> value, result |-> result,
     thread |-> thread, temp |-> temp]

\* A file next to the wallet file: the wallet path with a suffix.  of is ""
\* for the wallet itself, or the suffix split_accounts gives a new wallet
\* ("deterministic", "imported", an account number); what is "tmp" for
\* path.tmp.<pid>, "backup" for path.backup.<n>, "wallet" for the split
\* wallet's own file.
Path(of, what, n) == [of |-> of, what |-> what, n |-> n]

\* the state a call found when it began: the wallet file, the files next to
\* it, the document and the flag; the JSON text a write() is writing; and the
\* position at which the call raised
Frame(f, d, doc, m, s) == [file |-> f, dir |-> d, data |-> doc, modified |-> m, s |-> s, raised |-> "none"]
NoFrame == Frame(NoFile, <<>>, <<>>, FALSE, NoFile)

\* ================================================================== the state
VARIABLES
    raw,          \* Transaction.raw; the empty string is None
    inputs,       \* Transaction._inputs
    has_inputs,   \* Transaction._inputs is not None
    outputs,      \* Transaction._outputs
    has_outputs,  \* Transaction._outputs is not None
    locktime,     \* Transaction.locktime
    version,      \* Transaction.version
    op,           \* the last call made, its arguments and the exception it raised
    calls,        \* number of calls made
    returned,     \* the last call of multisig_script / _parse_redeemScript
    data,         \* WalletStorage.data
    modified,     \* WalletStorage.modified
    pubkey,       \* WalletStorage.pubkey; 0 is None
    store_raw,    \* WalletStorage.raw; NoFile when the attribute is not set
    file,         \* the content of the file at WalletStorage.path
    held,         \* the list the caller of the store holds a reference to
    sop,          \* the last call on the store, and what it did
    manual_upgrades, \* WalletStorage.manual_upgrades
    dir,          \* the files next to the wallet file, by Path
    os_name,      \* os.name: on "nt" os.rename raises when the target exists
    pc,           \* the position of the call in progress in upgrade() / _write();
                  \* with several threads, the position of each thread
    frame         \* what the call in progress found when it began; with several
                  \* threads, what the call of each thread holds

\* the variables of the Transaction object and its calls
txVars == <<raw, inputs, has_inputs, outputs, has_outputs, locktime, version, op, calls>>

\* the variables of the WalletStorage object, its file and its caller
storeVars == <<data, modified, pubkey, store_raw, file, held, sop, manual_upgrades, dir, os_name, pc, frame>>

vars == <<txVars, returned, storeVars>>

\* a call of a module-level script function: its arguments, the exception it
\* raised, the script it returned and what _parse_redeemScript returned
Returned(fn, x_pubkeys, threshold, err, script, parsed) ==
    [fn |-> fn, x_pubkeys |-> x_pubkeys, threshold |-> threshold, err |-> err,
     script |-> script, parsed |-> parsed]

NoCall == Returned("none", <<>>, 0, "none", <<>>, NoRedeem("none"))

\* no WalletStorage object is in play
NoStore ==
    /\ data = <<>> /\ modified = FALSE /\ pubkey = 0
    /\ store_raw = NoFile /\ file = NoFile
    /\ held = NotHeld
    /\ sop = StoreOp("none", "none", StrKey(0), None, None, "main", FALSE)
    /\ manual_upgrades = FALSE /\ dir = <<>> /\ os_name = "posix"
    /\ pc = "none" /\ frame = NoFrame

Op(name, err, i, j, keypairs, sigs) ==
    [name |-> name, err |-> err, i |-> i, j |-> j, keypairs |-> keypairs, sigs |-> sigs]

\* Transaction.__init__(raw) and Transaction.from_io(inputs, outputs)
Init ==
    /\ locktime = 0
    /\ version = 1
    /\ op = Op("init", "none", 0, 0, {}, <<>>)
    /\ calls = 0
    /\ returned = NoCall
    /\ NoStore
    /\ \/ /\ raw \in RawPool
          /\ inputs = <<>> /\ has_inputs = FALSE
          /\ outputs = <<>> /\ has_outputs = FALSE
       \/ /\ raw = <<>>
          /\ \E n \in 1..Len(InputPool) : inputs = <<InputPool[n]>>
          /\ has_inputs = TRUE
          /\ outputs = <<FirstOutput>> /\ has_outputs = TRUE

Fields(err, ins, has_ins, outs, has_outs, lock, ver) ==
    [err |-> err, inputs |-> ins, has_inputs |-> has_ins, outputs |-> outs,
     has_outputs |-> has_outs, locktime |-> lock, version |-> ver]

\* Transaction.deserialize from the fields given: what it leaves in them and
\* the exception it raises
LoadFrom(d) ==
    IF d.err # "none"
      THEN Fields(d.err, inputs, has_inputs, outputs, has_outputs, locktime, version)
      ELSE Fields("none", d.inputs, TRUE, d.outputs, TRUE, d.lockTime, d.version)

\* The fields as self.inputs() leaves them: Transaction.deserialize runs when
\* _inputs is None, and does nothing when raw is None too (the caller's loop
\* over None then raises TypeError)
Loaded ==
    IF has_inputs THEN Fields("none", inputs, has_inputs, outputs, has_outputs, locktime, version)
    ELSE IF raw = <<>>
      THEN Fields("TypeError", inputs, has_inputs, outputs, has_outputs, locktime, version)
    ELSE LoadFrom(deserialize(raw))

\* the transaction the fields L hold
TxOf(L) == Tx(L.version, L.locktime, L.inputs, L.outputs)

\* the fields are left as L has them
SetLoaded(L) ==
    /\ inputs' = L.inputs /\ has_inputs' = L.has_inputs
    /\ outputs' = L.outputs /\ has_outputs' = L.has_outputs
    /\ locktime' = L.locktime /\ version' = L.version

\* the fields are left as L has them, but for the inputs
SetInputs(L, ins) ==
    /\ inputs' = ins /\ has_inputs' = TRUE
    /\ outputs' = L.outputs /\ has_outputs' = L.has_outputs
    /\ locktime' = L.locktime /\ version' = L.version

\* a call on the Transaction object
Call == calls < MaxCalls /\ calls' = calls + 1 /\ UNCHANGED <<returned, storeVars>>

\* Transaction.inputs() / Transaction.deserialize()
Deserialize ==
    /\ Call
    /\ ~has_inputs
    /\ \E L \in {Loaded} :
         /\ SetLoaded(L)
         /\ op' = Op("deserialize", L.err, 0, 0, {}, <<>>)
    /\ UNCHANGED raw

\* self.raw = self.serialize() at the end of sign and update_signatures, after
\* the loop left the inputs as r has them
Kept(ser, raw_kept) == IF ser.err # "none" THEN Ser(ser.err, raw_kept) ELSE ser

Reserialize(L, r, raw_kept) ==
    IF r.err # "none" THEN Ser(r.err, raw_kept)
    ELSE Kept(serialize(Tx(L.version, L.locktime, r.inputs, L.outputs)), raw_kept)

\* Transaction.sign(keypairs)
Sign ==
    /\ Call
    /\ \E keypairs \in KeypairChoices, L \in {Loaded} :
         IF L.err # "none" THEN
           /\ SetLoaded(L) /\ UNCHANGED raw
           /\ op' = Op("sign", L.err, 0, 0, keypairs, <<>>)
         ELSE
           \E r \in {SignInputs(TxOf(L), 1, keypairs)} :
             \E ser \in {Reserialize(L, r, raw)} :
               /\ SetInputs(L, r.inputs)
               /\ raw' = ser.s
               /\ op' = Op("sign", ser.err, 0, 0, keypairs, <<>>)

\* the signatures a remote signer returns for input i: one by each private
\* key over the input's preimage, or one over something else
RemoteSigs(tx, i) ==
    Bind(preimage_hash(tx, i), LAMBDA pre_hash :
      {DerSig(0, Zeros(HashLen), 1)} \cup
      (IF pre_hash.err = "none" THEN {DerSig(k, pre_hash.h, 1) : k \in KeyIds} ELSE {}))

\* the lists update_signatures is called with: one signature per input, or
\* a list of the wrong length
ListsOf(sigs) ==
    {<<>>} \cup
    {list \in [DOMAIN sigs -> UNION {sigs[i] : i \in DOMAIN sigs}] :
       \A i \in DOMAIN sigs : list[i] \in sigs[i]}

RemoteLists(tx) == ListsOf([i \in 1..Len(tx.inputs) |-> RemoteSigs(tx, i)])

\* Transaction.update_signatures(signatures)
UpdateSignatures ==
    /\ Call
    /\ \E L \in {Loaded} :
         IF L.err # "none" THEN
           /\ SetLoaded(L) /\ UNCHANGED raw
           /\ op' = Op("update_signatures", L.err, 0, 0, {}, <<>>)
         ELSE
           \E signatures \in RemoteLists(TxOf(L)) :
             IF is_complete(L.inputs) THEN
               /\ SetLoaded(L) /\ UNCHANGED raw
               /\ op' = Op("update_signatures", "none", 0, 0, {}, signatures)
             ELSE IF Len(L.inputs) # Len(signatures) THEN
               /\ SetLoaded(L) /\ UNCHANGED raw
               /\ op' = Op("update_signatures", "RuntimeError", 0, 0, {}, signatures)
             ELSE
               \E r \in {UpdateInputs(TxOf(L), 1, signatures, raw # <<>>)} :
                 \E ser \in {Reserialize(L, r, IF r.raw_set THEN raw ELSE <<>>)} :
                   /\ SetInputs(L, r.inputs)
                   /\ raw' = ser.s
                   /\ op' = Op("update_signatures", ser.err, 0, 0, {}, signatures)

\* a signature the caller of add_signature_to_txin holds
SigBy(k, n) == DerSig(k, Zeros(HashLen), n) \o <<nHashType>>

\* Transaction.add_signature_to_txin(txin, signingPos, sig) for a txin of
\* self._inputs that holds a list of signatures
AddSignatureToTxin ==
    /\ Call
    /\ has_inputs
    /\ \E i \in 1..Len(inputs) :
         /\ inputs[i].type \in {"p2pkh", "p2sh", "p2pk"}
         /\ \E j \in 1..Len(inputs[i].x_pubkeys) :
              IF j > Len(inputs[i].signatures) THEN
                /\ UNCHANGED <<raw, inputs>>
                /\ op' = Op("add_signature_to_txin", "IndexError", i, j, {}, <<SigBy(0, 2)>>)
              ELSE
                /\ inputs' = [inputs EXCEPT ![i] = add_signature_to_txin(@, j, SigBy(0, 2))]
                /\ raw' = <<>>
                /\ op' = Op("add_signature_to_txin", "none", i, j, {}, <<SigBy(0, 2)>>)
    /\ UNCHANGED <<has_inputs, outputs, has_outputs, locktime, version>>

\* Transaction.add_inputs(inputs)
AddInputs ==
    /\ Call
    /\ has_inputs
    /\ Len(inputs) < MaxInputs
    /\ \E n \in 1..Len(AddPool) :
         /\ \A k \in 1..Len(inputs) : inputs[k].prevout_hash # AddPool[n].prevout_hash
         /\ inputs' = Append(inputs, AddPool[n])
         /\ op' = Op("add_inputs", "none", n, 0, {}, <<>>)
    /\ raw' = <<>>
    /\ UNCHANGED <<has_inputs, outputs, has_outputs, locktime, version>>

\* Transaction.add_outputs(outputs)
AddOutputs ==
    /\ Call
    /\ has_outputs
    /\ Len(outputs) < MaxOutputs
    /\ outputs' = Append(outputs, AddedOutput)
    /\ raw' = <<>>
    /\ op' = Op("add_outputs", "none", 0, 0, {}, <<>>)
    /\ UNCHANGED <<inputs, has_inputs, has_outputs, locktime, version>>

\* Transaction.BIP_LI01_sort()
BIP_LI01_sort ==
    /\ Call
    /\ has_inputs /\ has_outputs
    /\ inputs' = SortBy(inputs, "inputs")
    /\ outputs' = SortBy(outputs, "outputs")
    /\ op' = Op("BIP_LI01_sort", "none", 0, 0, {}, <<>>)
    /\ UNCHANGED <<raw, has_inputs, has_outputs, locktime, version>>

\* Transaction.__str__(): raw is serialized when it is None
Str ==
    /\ Call
    /\ IF raw # <<>> THEN
         /\ UNCHANGED <<raw, inputs, has_inputs, outputs, has_outputs, locktime, version>>
         /\ op' = Op("str", "none", 0, 0, {}, <<>>)
       ELSE
         \E ser \in {Reserialize(Loaded, Loaded, raw)} :
           /\ raw' = ser.s
           /\ op' = Op("str", ser.err, 0, 0, {}, <<>>)
           /\ UNCHANGED <<inputs, has_inputs, outputs, has_outputs, locktime, version>>

\* the fields after Transaction.update(raw_new): _inputs is reset first
AfterUpdate(L, d) ==
    IF d.err # "none"
      THEN Fields(d.err, <<>>, FALSE, L.outputs, L.has_outputs, L.locktime, L.version)
      ELSE Fields("none", d.inputs, TRUE, d.outputs, TRUE, d.lockTime, d.version)

\* self.update(self.serialize()): the transaction is read again from its own
\* serialization
Update ==
    /\ Call
    /\ \E L \in {Loaded} :
         \E ser \in {Reserialize(L, L, <<>>)} :
           IF ser.err # "none" THEN
             /\ SetLoaded(L) /\ UNCHANGED raw
             /\ op' = Op("update", ser.err, 0, 0, {}, <<>>)
           ELSE
             \E U \in {AfterUpdate(L, deserialize(ser.s))} :
               /\ raw' = ser.s
               /\ SetLoaded(U)
               /\ op' = Op("update", U.err, 0, 0, {}, <<>>)

\* Transaction.preimage_hash(i): a query; the digest or the exception it
\* raises is recorded
PreimageHash ==
    /\ Call
    /\ \E L \in {Loaded} :
         /\ SetLoaded(L)
         /\ IF L.err # "none" THEN op' = Op("preimage_hash", L.err, 0, 0, {}, <<>>)
            ELSE \E i \in 1..Len(L.inputs) :
                   \E p \in {preimage_hash(TxOf(L), i)} :
                     op' = Op("preimage_hash", p.err, i, 0, {}, <<p.h>>)
    /\ UNCHANGED raw

Next ==
    \/ Deserialize
    \/ Sign
    \/ UpdateSignatures
    \/ AddSignatureToTxin
    \/ AddInputs
    \/ AddOutputs
    \/ BIP_LI01_sort
    \/ Str
    \/ Update
    \/ PreimageHash

Spec == Init /\ [][Next]_vars

\* ====================================================== deserialize on bytes
\* Byte strings a Transaction object is constructed from that are not the
\* serialization of a wallet transaction.

\* transactions whose input count reads as zero: with an output and a
\* locktime, with nothing after the count, and with the count in three bytes
ZeroInputRaws ==
    { serialize(Tx(1, 0, <<>>, <<FirstOutput>>)).s,
      int_to_hex(1, 4) \o <<0>>,
      int_to_hex(1, 4) \o <<253, 0, 0>> \o var_int(1) \o TxOutput_to_bytes(FirstOutput)
         \o int_to_hex(0, 4) }

\* a signature as a scriptSig pushes it
PushedSig == push_script(DerSig(1, Zeros(HashLen), 0) \o <<nHashType>>)

\* scriptSigs of no spend template: no push at all, pushes after an opcode,
\* three pushes, a second push that is no public key, OP_0 and pushes whose
\* last push is no m-of-n redeem script, OP_0 alone, and the empty script
OddScripts ==
    { <<OP_1>>,
      <<OP_1, OP_1>>,
      PushedSig \o PushedSig \o push_script(XK1),
      PushedSig \o push_script(<<9, 9>>),
      PushedSig \o push_script(<<2, 0>>),
      <<OP_0>> \o PushedSig \o push_script(<<OP_1>>),
      <<OP_0>> \o PushedSig \o push_script(<<OP_1, OP_1 + 1, OP_CHECKMULTISIG>>),
      <<OP_0>> \o PushedSig \o push_script(multisig_script(<< <<9, 9>> >>, 1)),
      <<OP_0>> \o PushedSig \o push_script(multisig_script(<<XK1>>, 0)),
      <<OP_0>>,
      <<>> }

\* the serialized transaction with one input that carries scriptSig
OddRaw(scriptSig) ==
    serialize(Tx(1, 0, <<Unknown_in(21, scriptSig, Absent, <<>>)>>, <<FirstOutput>>)).s

OddRaws == {OddRaw(s) : s \in OddScripts}

\* the strict, non-empty prefixes of a byte string
StrictPrefixes(s) == {SubSeq(s, 1, n) : n \in 1..(Len(s) - 1)}

\* the valid serializations that are truncated: an unsigned transaction with
\* two inputs and their values, and a signed one
TruncatedBases ==
    { serialize(Tx(1, 0, <<InputPool[5], AddPool[1]>>, <<FirstOutput>>)).s,
      SignedRaw(InputPool[1], WalletKeypairs) }

TruncatedRaws == UNION {StrictPrefixes(s) : s \in TruncatedBases}

ParsePool == RawPool \cup ZeroInputRaws \cup OddRaws \cup TruncatedRaws

\* Transaction(raw) for any of these byte strings
ParseInit ==
    /\ locktime = 0
    /\ version = 1
    /\ op = Op("init", "none", 0, 0, {}, <<>>)
    /\ calls = 0
    /\ returned = NoCall
    /\ NoStore
    /\ raw \in ParsePool
    /\ inputs = <<>> /\ has_inputs = FALSE
    /\ outputs = <<>> /\ has_outputs = FALSE

ParseNext == Deserialize

ParseSpec == ParseInit /\ [][ParseNext]_vars

\* ============================================ multisig_script on key lists
\* the most keys a redeem script is built from
MaxKeys == 15

\* the keys a redeem script is built from: two public keys and a BIP32
\* reference
KeyPool == <<XK1, XK2, XB>>

\* the key lists: every list of up to two keys, and for each length up to
\* MaxKeys the lists that go round the pool from each of its keys
KeyLists ==
    UNION {[1..n -> {KeyPool[k] : k \in 1..Len(KeyPool)}] : n \in 0..2}
      \cup {[i \in 1..n |-> KeyPool[((i + o) % Len(KeyPool)) + 1]] :
               n \in 3..MaxKeys, o \in 1..Len(KeyPool)}

\* no Transaction object is in play and no script function was called
NoTransaction ==
    /\ locktime = 0
    /\ version = 1
    /\ op = Op("init", "none", 0, 0, {}, <<>>)
    /\ calls = 0
    /\ raw = <<>>
    /\ inputs = <<>> /\ has_inputs = FALSE
    /\ outputs = <<>> /\ has_outputs = FALSE
    /\ returned = NoCall

ScriptInit == NoTransaction /\ NoStore

\* multisig_script(x_pubkeys, threshold)
MultisigScript ==
    /\ \E x_pubkeys \in KeyLists, threshold \in 0..(MaxKeys + 1) :
         returned' =
           IF multisig_script_ok(x_pubkeys, threshold)
             THEN Returned("multisig_script", x_pubkeys, threshold, "none",
                           multisig_script(x_pubkeys, threshold), NoRedeem("none"))
             ELSE Returned("multisig_script", x_pubkeys, threshold, "AssertionError",
                           <<>>, NoRedeem("none"))
    /\ UNCHANGED <<txVars, storeVars>>

\* _parse_redeemScript(s) on the script multisig_script returned
ParseRedeemScript ==
    /\ returned.fn = "multisig_script" /\ returned.err = "none"
    /\ \E r \in {_parse_redeemScript(returned.script)} :
         returned' = Returned("_parse_redeemScript", returned.x_pubkeys, returned.threshold,
                              r.err, returned.script, r)
    /\ UNCHANGED <<txVars, storeVars>>

ScriptNext == MultisigScript \/ ParseRedeemScript

ScriptSpec == ScriptInit /\ [][ScriptNext]_vars

\* ==================================================== WalletStorage: the calls
\* d with value under key, and d without key
SetItem(d, key, value) == [k \in DOMAIN d \cup {key} |-> IF k = key THEN value ELSE d[k]]
Pop(d, key) == [k \in DOMAIN d \ {key} |-> d[k]]

\* the document and the flag a put leaves
Stored(d, m) == [data |-> d, modified |-> m]

\* put that stores the caller's object itself
put_without_copy(d, m, key, value) ==
    IF json_dumps_raises(key) \/ json_dumps_raises(value) THEN Stored(d, m)
    ELSE IF value.t # "None" THEN
      IF key \in DOMAIN d /\ Same(d[key], value) THEN Stored(d, m)
      ELSE Stored(SetItem(d, key, value), TRUE)
    ELSE IF key \in DOMAIN d THEN Stored(Pop(d, key), TRUE)
    ELSE Stored(d, m)

\* put without the json.dumps test of the key and the value
put_unchecked(d, m, key, value) ==
    IF value.t # "None" THEN
      IF key \in DOMAIN d /\ Same(d[key], value) THEN Stored(d, m)
      ELSE Stored(SetItem(d, key, deepcopy(value)), TRUE)
    ELSE IF key \in DOMAIN d THEN Stored(Pop(d, key), TRUE)
    ELSE Stored(d, m)

\* WalletStorage.put(key, value) on the document d and the flag m
put(d, m, key, value) ==
    IF json_dumps_raises(key) \/ json_dumps_raises(value) THEN Stored(d, m)
    ELSE IF value.t # "None" THEN
      IF key \in DOMAIN d /\ Same(d[key], value) THEN Stored(d, m)
      ELSE Stored(SetItem(d, key, deepcopy(value)), TRUE)
    ELSE IF key \in DOMAIN d THEN Stored(Pop(d, key), TRUE)
    ELSE Stored(d, m)

\* WalletStorage.get(key, default): self.data.get(key) is the stored object
get(d, key, default) ==
    IF key \in DOMAIN d THEN deepcopy([d[key] EXCEPT !.obj = 1]) ELSE default

\* WalletStorage.__init__ when the file does not exist: three puts
NewDocument ==
    put(put(put(<<>>, FALSE, K_tx_store_aeskey, Val("str", <<3>>, 0)).data, TRUE,
            K_wallet_author, Val("str", <<4>>, 0)).data, TRUE,
        K_seed_version, Val("int", <<FINAL_SEED_VERSION>>, 0))

\* the caller dropped its reference to the list it held
Unshared(d) == [k \in DOMAIN d |-> [d[k] EXCEPT !.obj = 0]]

\* the caller changed the list it holds: every reference to it sees v
Shared(d, v) == [k \in DOMAIN d |-> IF d[k].obj = 1 THEN [d[k] EXCEPT !.v = v] ELSE d[k]]

\* WalletStorage(path) where no file exists
StoreInit ==
    /\ data = NewDocument.data /\ modified = NewDocument.modified
    /\ pubkey = 0
    /\ store_raw = NoFile /\ file = NoFile
    /\ held = NotHeld
    /\ sop = StoreOp("init", "none", StrKey(0), None, None, "main", FALSE)
    /\ manual_upgrades = TRUE /\ dir = <<>> /\ os_name = "posix"
    /\ pc = "idle" /\ frame = NoFrame
    /\ NoTransaction

\* a call on the store
StoreCall ==
    /\ calls < MaxStoreCalls /\ calls' = calls + 1
    /\ UNCHANGED <<raw, inputs, has_inputs, outputs, has_outputs, locktime, version, op,
                   returned, manual_upgrades, dir, os_name, pc, frame>>

\* put(key, value) with a value the caller does not keep
Put ==
    /\ StoreCall
    /\ \E key \in CallerKeys, value \in {AString, ATuple, ASet, None} :
         \E r \in {put(data, modified, key, value)} :
           /\ data' = r.data /\ modified' = r.modified
           /\ sop' = StoreOp("put", "none", key, value, None, "main", FALSE)
    /\ UNCHANGED <<pubkey, store_raw, file, held>>

\* put(key, value) with a list the caller keeps: a new one, or the one it holds
PutList ==
    /\ StoreCall
    /\ \E key \in CallerKeys, v \in {<<>>} \cup (IF held.some THEN {held.v} ELSE {}) :
         \E d \in {IF held.some /\ v = held.v THEN data ELSE Unshared(data)} :
           \E r \in {put(d, modified, key, Val("list", v, 1))} :
             /\ data' = r.data /\ modified' = r.modified
             /\ held' = Held(TRUE, v, "put", key)
             /\ sop' = StoreOp("put", "none", key, Val("list", v, 1), None, "main", FALSE)
    /\ UNCHANGED <<pubkey, store_raw, file>>

\* get(key, default); the caller keeps the list it is given
Get ==
    /\ StoreCall
    /\ \E key \in CallerKeys :
         \E r \in {get(data, key, ADefault)} :
           /\ IF r.t = "list"
                THEN /\ held' = Held(TRUE, r.v, "get", key)
                     /\ data' = IF r.obj = 1
                                  THEN [Unshared(data) EXCEPT ![key].obj = 1]
                                  ELSE Unshared(data)
                ELSE UNCHANGED <<held, data>>
           /\ sop' = StoreOp("get", "none", key, ADefault, r, "main", FALSE)
    /\ UNCHANGED <<modified, pubkey, store_raw, file>>

\* the caller appends to the list it holds
Mutate ==
    /\ StoreCall
    /\ held.some /\ Len(held.v) < MaxAppend
    /\ held' = [held EXCEPT !.v = Append(held.v, 1)]
    /\ data' = Shared(data, Append(held.v, 1))
    /\ sop' = StoreOp("mutate", "none", held.key, None, None, "main", FALSE)
    /\ UNCHANGED <<modified, pubkey, store_raw, file>>

\* a thread for which no write is refused
isDaemon_never(thread) == FALSE

\* threading.currentThread().isDaemon()
isDaemon(thread) == thread = "daemon"

\* WalletStorage.write() / _write() on a thread
Write ==
    /\ StoreCall
    /\ \E thread \in {"main", "daemon"} :
         IF isDaemon(thread) \/ ~modified THEN
           /\ sop' = StoreOp("write", "none", StrKey(0), None, None, thread, FALSE)
           /\ UNCHANGED <<data, modified, pubkey, store_raw, file, held>>
         ELSE IF sort_keys_raises(data) THEN
           /\ sop' = StoreOp("write", "TypeError", StrKey(0), None, None, thread, FALSE)
           /\ UNCHANGED <<data, modified, pubkey, store_raw, file, held>>
         ELSE
           /\ file' = encrypt_message(json_dumps(data), pubkey)
           /\ store_raw' = encrypt_message(json_dumps(data), pubkey)
           /\ modified' = FALSE
           /\ sop' = StoreOp("write", "none", StrKey(0), None, None, thread, TRUE)
           /\ UNCHANGED <<data, pubkey, held>>

\* WalletStorage.set_password(password, encrypt)
SetPassword ==
    /\ StoreCall
    /\ \E password \in {0, Password}, encrypt \in BOOLEAN :
         \E r \in {put(data, modified, K_use_encryption,
                       Val("bool", <<IF password # 0 THEN 1 ELSE 0>>, 0))} :
           /\ data' = r.data /\ modified' = r.modified
           /\ pubkey' = IF encrypt /\ password # 0 THEN password ELSE 0
           /\ sop' = StoreOp("set_password", "none", K_use_encryption, None, None, "main",
                             FALSE)
    /\ UNCHANGED <<store_raw, file, held>>

\* the document __init__ leaves for an existing file: load_data(raw) unless
\* is_encrypted()
load_file(f) == IF f.enc # 0 THEN <<>> ELSE json_loads(f.doc)

\* decrypt(password) on the raw content: the exception, or the document
Decrypted(err, d) == [err |-> err, data |-> d]

decrypt(r, password) ==
    IF r = NoFile THEN Decrypted("AttributeError", <<>>)
    ELSE IF r.enc # password THEN Decrypted("DecryptionError", <<>>)
    ELSE Decrypted("none", json_loads(r.doc))

\* WalletStorage(path, manual_upgrades=True) on the path again
Reopen ==
    /\ StoreCall
    /\ IF file = NoFile THEN
         /\ data' = NewDocument.data /\ modified' = NewDocument.modified
         /\ store_raw' = NoFile
       ELSE
         /\ data' = load_file(file)
         /\ modified' = FALSE
         /\ store_raw' = file
    /\ pubkey' = 0
    /\ sop' = StoreOp("open", "none", StrKey(0), None, None, "main", FALSE)
    /\ UNCHANGED <<file, held>>

\* WalletStorage.decrypt(password)
Decrypt ==
    /\ StoreCall
    /\ \E password \in {Password, WrongPassword} :
         \E r \in {decrypt(store_raw, password)} :
           /\ data' = IF r.err = "none" THEN r.data ELSE data
           /\ pubkey' = IF r.err = "none" THEN password ELSE pubkey
           /\ sop' = StoreOp("decrypt", r.err, StrKey(0), Val("str", <<password>>, 0), None,
                             "main", FALSE)
    /\ UNCHANGED <<modified, store_raw, file, held>>

StoreNext == Put \/ PutList \/ Get \/ Mutate \/ Write \/ SetPassword \/ Reopen \/ Decrypt

StoreSpec == StoreInit /\ [][StoreNext]_vars

\* ================================================ the migration ladder: values
\* Strings are named by numbers; a list holds such numbers; a dictionary is a
\* function from keys to values.  null inside a dictionary is None.
AStr(n) == Val("str", <<n>>, 0)
AnInt(n) == Val("int", <<n>>, 0)
AList(s) == Val("list", s, 0)
ADict(f) == Val("dict", f, 0)

\* bool(x) of a value
Truthy(x) ==
    /\ x.t # "None"
    /\ x.v # <<>>
    /\ ~(x.t \in {"int", "bool"} /\ x.v = <<0>>)

\* dict.get(key) and dict[key] of a value that should be a dictionary
DictGet(x, key) == IF key \in DOMAIN x.v THEN x.v[key] ELSE None
Item(err, v) == [err |-> err, v |-> v]
GetItem(x, key) ==
    IF x.t # "dict" THEN Item("TypeError", None)
    ELSE IF key \notin DOMAIN x.v THEN Item("KeyError", None)
    ELSE Item("none", x.v[key])

\* the keys of a dictionary in the order of the file
FirstKey(S) == CHOOSE k \in S : \A j \in S : k.n <= j.n

RECURSIVE KeySeq(_)
KeySeq(S) ==
    IF S = {} THEN <<>>
    ELSE <<FirstKey(S)>> \o KeySeq(S \ {FirstKey(S)})

\* the keys of the document the ladder reads and writes
K_accounts == StrKey(10)
K_wallet_type == StrKey(11)
K_master_public_key == StrKey(12)
K_master_public_keys == StrKey(13)
K_master_private_keys == StrKey(14)
K_seed == StrKey(15)
K_keystore == StrKey(16)
K_x1 == StrKey(17)
K_x2 == StrKey(18)
K_key_type == StrKey(19)
K_keypairs == StrKey(20)
K_addresses == StrKey(21)
K_pubkeys == StrKey(22)
K_derivation == StrKey(23)
K_subwallets == StrKey(24)
K_labels == StrKey(25)
K_addr_history == StrKey(26)
K_payment_requests == StrKey(27)
K_frozen_addresses == StrKey(28)
K_frozen_coins == StrKey(29)
K_pruned_txo == StrKey(30)
K_transactions == StrKey(31)
K_txi == StrKey(32)
K_txo == StrKey(33)
K_tx_fees == StrKey(34)
K_verified_tx3 == StrKey(35)
K_gap_limit == StrKey(36)
K_invoices == StrKey(37)
K_multiple_change == StrKey(38)
K_stored_height == StrKey(39)
K_use_change == StrKey(40)
K_fees == StrKey(41)

\* keys inside the dictionaries: account ids '0', '1', '/x'; 'imported',
\* 'pending'; the master key names "x/", "x/0'", "x/1'"; keystore fields
A_0 == StrKey(50)
A_1 == StrKey(51)
A_x == StrKey(52)
F_imported == StrKey(53)
F_pending == StrKey(54)
X_root == StrKey(55)
X_0 == StrKey(56)
X_1 == StrKey(57)
F_type == StrKey(60)
F_seed == StrKey(61)
F_mpk == StrKey(62)
F_xpub == StrKey(63)
F_xprv == StrKey(64)
F_keypairs == StrKey(65)
F_hw_type == StrKey(66)
F_derivation == StrKey(67)
F_change == StrKey(68)
F_receiving == StrKey(69)
F_pubkey == StrKey(70)
F_redeem_script == StrKey(71)
F_wallet_type == StrKey(72)
F_id == StrKey(73)

\* the strings the ladder compares and writes
ESV == AStr(4)
T_old == AStr(10)
T_standard == AStr(11)
T_imported == AStr(12)
T_xpub == AStr(13)
T_bip44 == AStr(14)
T_trezor == AStr(15)
T_keepkey == AStr(16)
T_ledger == AStr(17)
T_btchip == AStr(18)
T_digitalbitbox == AStr(19)
T_2of2 == AStr(20)
T_bip32 == AStr(21)
T_hardware == AStr(22)
T_p2pkh == AStr(23)
T_imported_privkey == AStr(24)
T_imported_addr == AStr(25)
T_other == AStr(26)

\* multisig_type(wallet_type): [m, n] of an 'mofn' string, else None
multisig_type(wallet_type) == IF wallet_type = T_2of2 THEN <<2, 2>> ELSE <<>>

\* a master public key of 128 hex digits (an 'old' wallet), a seed, master
\* keys; public keys and the addresses PublicKey.to_address gives them
OldMpk == AStr(30)
ASeed == AStr(31)
XPubOf(key) == AStr(key.n + 100)
XPrvOf(key) == AStr(key.n + 200)
address_of(pk) == pk + 10
\* bip44_derivation(account_id): the path string "m/44'/0'/<id>'"
bip44_derivation(account_id) == AStr(40 + account_id)

\* is_address_valid(address): the imported address 9 is garbage
is_address_valid(address) == address.n # 9

\* ================================================= the migration ladder: steps
\* a sequence of put calls, in order
RECURSIVE Puts(_, _)
Puts(S, kvs) ==
    IF kvs = <<>> THEN S
    ELSE Puts(put(S.data, S.modified, kvs[1][1], kvs[1][2]), Tail(kvs))

\* what a step returns: the exception it raised, the document and the flag
Stepped(err, S) == [err |-> err, data |-> S.data, modified |-> S.modified]

\* WalletStorage.get_seed_version()
SeedVersion(err, v) == [err |-> err, v |-> v]

\* the version get_seed_version reads or derives, and its verdict on it
StoredSeedVersion(stored, mpk) ==
    IF Truthy(stored) THEN stored.v[1] ELSE IF mpk = OldMpk THEN 4 ELSE 11

CheckSeedVersion(seed_version) ==
    IF seed_version > FINAL_SEED_VERSION THEN SeedVersion("RuntimeError", seed_version)
    ELSE IF seed_version >= 12 THEN SeedVersion("none", seed_version)
    ELSE IF seed_version \notin {4, 11} THEN
      SeedVersion("Exception: unsupported seed version", seed_version)
    ELSE SeedVersion("none", seed_version)

\* a get_seed_version that accepts every version it reads
get_seed_version_unchecked(d) ==
    SeedVersion("none", StoredSeedVersion(get(d, K_seed_version, None),
                                          get(d, K_master_public_key, AStr(0))))

get_seed_version(d) ==
    CheckSeedVersion(StoredSeedVersion(get(d, K_seed_version, None),
                                       get(d, K_master_public_key, AStr(0))))

\* WalletStorage._is_upgrade_method_needed(min_version, max_version)
Needed(err, needed) == [err |-> err, needed |-> needed]

NeededFor(cur, min_version, max_version) ==
    IF cur.err # "none" THEN Needed(cur.err, FALSE)
    ELSE IF cur.v > max_version THEN Needed("none", FALSE)
    ELSE IF cur.v < min_version THEN Needed("Exception: unexpected version", FALSE)
    ELSE Needed("none", TRUE)

\* a gate that has no upper version: the step runs from min_version on
_is_upgrade_method_needed_from(d, min_version, max_version) ==
    NeededFor(get_seed_version(d), min_version, FINAL_SEED_VERSION)

_is_upgrade_method_needed(d, min_version, max_version) ==
    NeededFor(get_seed_version(d), min_version, max_version)

\* WalletStorage.requires_split()
requires_split(d) == Cardinality(DOMAIN get(d, K_accounts, ADict(<<>>)).v) > 1
\* x.get(key, {}) of a dictionary x
SubDict(x, key) == IF x.t = "dict" /\ key \in DOMAIN x.v THEN x.v[key] ELSE ADict(<<>>)

\* the entries of the imported account '/x': address -> [pubkey, privkey];
\* privkey 0 is None
ImportedEntries(d) == SubDict(SubDict(get(d, K_accounts, ADict(<<>>)), A_x), F_imported).v

\* the numbers naming the keys of a sequence of keys
KeyNumbers(keys) == [i \in 1..Len(keys) |-> keys[i].n]

\* convert_imported's loop: the addresses without a private key, and the
\* private keys by public key
WatchedAddresses(e) == KeyNumbers(SelectSeq(KeySeq(DOMAIN e), LAMBDA k : e[k].v[2] = 0))
ImportedKeypairs(e) ==
    [p \in {StrKey(e[k].v[1]) : k \in {j \in DOMAIN e : e[j].v[2] # 0}} |->
       AStr(e[CHOOSE k \in DOMAIN e : e[k].v[2] # 0 /\ StrKey(e[k].v[1]) = p].v[2])]

\* a convert_imported that takes mixed entries for addresses
ConvertImportedUnmixed(S, needed, e, addresses, keypairs) ==
    IF needed.err # "none" THEN Stepped(needed.err, S)
    ELSE IF ~needed.needed THEN Stepped("none", S)
    ELSE IF e = <<>> THEN Stepped("none", S)
    ELSE IF addresses # <<>> THEN
      Stepped("none", Puts(S, <<<<K_addresses, AList(addresses)>>, <<K_accounts, None>>>>))
    ELSE IF keypairs # <<>> THEN
      Stepped("none", Puts(S, <<<<K_wallet_type, T_standard>>, <<K_key_type, T_imported>>,
                                <<K_keypairs, ADict(keypairs)>>, <<K_accounts, None>>>>))
    ELSE Stepped("Exception: no addresses or privkeys", S)

ConvertImportedWith(S, needed, e, addresses, keypairs) ==
    IF needed.err # "none" THEN Stepped(needed.err, S)
    ELSE IF ~needed.needed THEN Stepped("none", S)
    ELSE IF e = <<>> THEN Stepped("none", S)
    ELSE IF addresses # <<>> /\ keypairs # <<>> THEN
      Stepped("Exception: mixed addresses and privkeys", S)
    ELSE IF addresses # <<>> THEN
      Stepped("none", Puts(S, <<<<K_addresses, AList(addresses)>>, <<K_accounts, None>>>>))
    ELSE IF keypairs # <<>> THEN
      Stepped("none", Puts(S, <<<<K_wallet_type, T_standard>>, <<K_key_type, T_imported>>,
                                <<K_keypairs, ADict(keypairs)>>, <<K_accounts, None>>>>))
    ELSE Stepped("Exception: no addresses or privkeys", S)

\* WalletStorage.convert_imported()
convert_imported(S) ==
    ConvertImportedWith(S, _is_upgrade_method_needed(S.data, 0, 13),
                        ImportedEntries(S.data),
                        WatchedAddresses(ImportedEntries(S.data)),
                        ImportedKeypairs(ImportedEntries(S.data)))

\* WalletStorage.convert_account()
ConvertAccountWith(S, needed) ==
    IF needed.err # "none" THEN Stepped(needed.err, S)
    ELSE IF ~needed.needed THEN Stepped("none", S)
    ELSE Stepped("none", Puts(S, <<<<K_accounts, None>>>>))

convert_account(S) == ConvertAccountWith(S, _is_upgrade_method_needed(S.data, 0, 13))
\* the junk convert_wallet_type removes at its end
RemoveJunk(S) ==
    Puts(S, <<<<K_master_public_key, None>>, <<K_master_public_keys, None>>,
              <<K_master_private_keys, None>>, <<K_derivation, None>>, <<K_seed, None>>,
              <<K_keypairs, None>>, <<K_key_type, None>>>>)

\* the keystore of a standard wallet is put, then the junk is removed
PutKeystore(S, keystore) ==
    Stepped("none", RemoveJunk(Puts(S, <<<<K_wallet_type, T_standard>>,
                                         <<K_keystore, ADict(keystore)>>>>)))

\* the keystore built from xpubs[name]: the exception of the lookup, or the
\* keystore put
PutKeystoreOf(S, xpub, keystore) ==
    IF xpub.err # "none" THEN Stepped(xpub.err, S) ELSE PutKeystore(S, keystore)

\* the multisig branch: one keystore per cosigner key of master_public_keys
CosignerKeystore(key, xpubs, xprvs, seed) ==
    IF key = K_x1 /\ Truthy(seed)
      THEN ADict(F_type :> T_bip32 @@ F_xpub :> xpubs.v[key] @@ F_xprv :> DictGet(xprvs, key)
                 @@ F_seed :> seed)
      ELSE ADict(F_type :> T_bip32 @@ F_xpub :> xpubs.v[key] @@ F_xprv :> DictGet(xprvs, key))

CosignerPuts(keys, xpubs, xprvs, seed) ==
    [i \in 1..Len(keys) |-> <<keys[i], CosignerKeystore(keys[i], xpubs, xprvs, seed)>>]

PutCosigners(S, xpubs, xprvs, seed) ==
    IF xpubs.t # "dict" THEN Stepped("AttributeError", S)
    ELSE Stepped("none",
                 RemoveJunk(Puts(S, CosignerPuts(KeySeq(DOMAIN xpubs.v), xpubs, xprvs, seed))))

ConvertWalletTypeWith(S, needed, wallet_type, seed_version, seed, xpubs, xprvs, mpk, keypairs, key_type) ==
    IF needed.err # "none" THEN Stepped(needed.err, S)
    ELSE IF ~needed.needed THEN Stepped("none", S)
    ELSE IF \/ Truthy(get(S.data, K_keystore, None))
            \/ Truthy(get(S.data, K_x1, None))
            \/ wallet_type = T_imported THEN Stepped("none", S)
    ELSE IF requires_split(S.data) THEN Stepped("AssertionError", S)
    ELSE IF seed_version = 4 \/ wallet_type = T_old THEN
      PutKeystore(S, F_type :> T_old @@ F_seed :> seed @@ F_mpk :> mpk)
    ELSE IF key_type = T_imported THEN
      PutKeystore(S, F_type :> T_imported @@ F_keypairs :> keypairs)
    ELSE IF wallet_type \in {T_xpub, T_standard} THEN
      PutKeystoreOf(S, GetItem(xpubs, X_root),
                    F_type :> T_bip32 @@ F_xpub :> GetItem(xpubs, X_root).v
                    @@ F_xprv :> DictGet(xprvs, X_root) @@ F_seed :> seed)
    ELSE IF wallet_type = T_bip44 THEN
      PutKeystoreOf(S, GetItem(xpubs, X_0),
                    F_type :> T_bip32 @@ F_xpub :> GetItem(xpubs, X_0).v
                    @@ F_xprv :> DictGet(xprvs, X_0))
    ELSE IF wallet_type \in {T_trezor, T_keepkey, T_ledger, T_digitalbitbox} THEN
      PutKeystoreOf(S, GetItem(xpubs, X_0),
                    F_type :> T_hardware @@ F_hw_type :> wallet_type
                    @@ F_xpub :> GetItem(xpubs, X_0).v
                    @@ F_derivation :> get(S.data, K_derivation, bip44_derivation(0)))
    ELSE IF multisig_type(wallet_type) # <<>> THEN PutCosigners(S, xpubs, xprvs, seed)
    ELSE Stepped("Exception: Unable to tell wallet type", S)

\* 'btchip' is read as 'ledger'
LedgerName(wallet_type) == IF wallet_type = T_btchip THEN T_ledger ELSE wallet_type

\* WalletStorage.convert_wallet_type()
convert_wallet_type(S) ==
    ConvertWalletTypeWith(S, _is_upgrade_method_needed(S.data, 0, 13),
                          LedgerName(get(S.data, K_wallet_type, None)),
                          get_seed_version(S.data).v,
                          get(S.data, K_seed, None),
                          get(S.data, K_master_public_keys, None),
                          get(S.data, K_master_private_keys, ADict(<<>>)),
                          get(S.data, K_master_public_key, None),
                          get(S.data, K_keypairs, None),
                          get(S.data, K_key_type, None))
\* the step's version gate, then its body
Gated(S, needed, body) ==
    IF needed.err # "none" THEN Stepped(needed.err, S)
    ELSE IF ~needed.needed THEN Stepped("none", S)
    ELSE body

\* self.get('keystore').get('type') == 'imported'; None has no get
KeystoreImported(keystore) == keystore.t = "dict" /\ DictGet(keystore, F_type) = T_imported

\* the public keys of an imported keystore, in order, and their addresses
KeystorePubkeys(keystore) == KeyNumbers(KeySeq(DOMAIN DictGet(keystore, F_keypairs).v))
AddressesOf(pubkeys) == [i \in 1..Len(pubkeys) |-> address_of(pubkeys[i])]

\* WalletStorage.convert_version_13_b()
Convert13bBody(S, wallet_type, keystore) ==
    IF wallet_type # T_standard THEN Stepped("none", Puts(S, <<<<K_seed_version, AnInt(13)>>>>))
    ELSE IF keystore.t # "dict" THEN Stepped("AttributeError", S)
    ELSE IF ~KeystoreImported(keystore) THEN
      Stepped("none", Puts(S, <<<<K_seed_version, AnInt(13)>>>>))
    ELSE
      Stepped("none",
              Puts(S, <<<<K_addresses,
                          ADict(F_change :> AList(<<>>)
                                @@ F_receiving :> AList(AddressesOf(KeystorePubkeys(keystore))))>>,
                        <<K_pubkeys, None>>,
                        <<K_seed_version, AnInt(13)>>>>))

convert_version_13_b(S) ==
    Gated(S, _is_upgrade_method_needed(S.data, 0, 13),
          Convert13bBody(S, get(S.data, K_wallet_type, None), get(S.data, K_keystore, None)))

\* the elements of a list, as a set
Elements(s) == {s[i] : i \in 1..Len(s)}

\* dict([(x, None) for x in addresses])
NoneByAddress(addresses) == [k \in {StrKey(a) : a \in Elements(addresses)} |-> None]

\* address -> {'pubkey': pubkey, 'redeem_script': None, 'type': 'p2pkh'}
DetailsByAddress(pubkeys) ==
    [k \in {StrKey(address_of(p)) : p \in Elements(pubkeys)} |->
       ADict(F_pubkey :> AStr(CHOOSE p \in Elements(pubkeys) : StrKey(address_of(p)) = k)
             @@ F_redeem_script :> None @@ F_type :> T_p2pkh)]

\* WalletStorage.convert_version_14()
Convert14Body(S, wallet_type, addresses, keystore) ==
    IF wallet_type = T_imported THEN
      IF addresses.t = "list" THEN
        Stepped("none", Puts(S, <<<<K_addresses, ADict(NoneByAddress(addresses.v))>>,
                                  <<K_seed_version, AnInt(14)>>>>))
      ELSE Stepped("none", Puts(S, <<<<K_seed_version, AnInt(14)>>>>))
    ELSE IF wallet_type = T_standard THEN
      IF keystore.t # "dict" THEN Stepped("AttributeError", S)
      ELSE IF ~KeystoreImported(keystore) THEN
        Stepped("none", Puts(S, <<<<K_seed_version, AnInt(14)>>>>))
      ELSE IF addresses.t # "dict" THEN Stepped("AttributeError", S)
      ELSE IF DictGet(addresses, F_receiving).t # "list" THEN Stepped("TypeError", S)
      ELSE IF \/ Cardinality(Elements(DictGet(addresses, F_receiving).v))
                   # Len(KeystorePubkeys(keystore))
              \/ \E p \in Elements(KeystorePubkeys(keystore)) :
                   address_of(p) \notin Elements(DictGet(addresses, F_receiving).v)
        THEN Stepped("AssertionError", S)
      ELSE
        Stepped("none",
                Puts(S, <<<<K_addresses, ADict(DetailsByAddress(KeystorePubkeys(keystore)))>>,
                          <<K_pubkeys, None>>,
                          <<K_wallet_type, T_imported>>,
                          <<K_seed_version, AnInt(14)>>>>))
    ELSE Stepped("none", Puts(S, <<<<K_seed_version, AnInt(14)>>>>))

convert_version_14(S) ==
    Gated(S, _is_upgrade_method_needed(S.data, 13, 13),
          Convert14Body(S, get(S.data, K_wallet_type, None), get(S.data, K_addresses, None),
                        get(S.data, K_keystore, None)))

\* WalletStorage.convert_version_15()
\* a step 15 that leaves the seed_version at 14
convert_version_15_skipped(S) == Stepped("none", S)

convert_version_15(S) ==
    Gated(S, _is_upgrade_method_needed(S.data, 14, 14),
          Stepped("none", Puts(S, <<<<K_seed_version, AnInt(15)>>>>)))
\* list(set): the members once each, here in ascending order
RECURSIVE Ascending(_)
Ascending(S) ==
    IF S = {} THEN <<>>
    ELSE <<CHOOSE a \in S : \A b \in S : a <= b>>
         \o Ascending(S \ {CHOOSE a \in S : \A b \in S : a <= b})

\* remove_from_dict / remove_from_list of convert_version_16, for all the
\* addresses it removes: the put it makes for a key, if the key is there
RemoveFromDict(d, dict_name, removed) ==
    IF get(d, dict_name, None).t # "dict" THEN <<>>
    ELSE <<<<dict_name,
             ADict([k \in DOMAIN get(d, dict_name, None).v \ removed |->
                      get(d, dict_name, None).v[k]])>>>>

RemoveFromList(d, list_name, removed) ==
    IF get(d, list_name, None).t # "list" THEN <<>>
    ELSE <<<<list_name,
             AList(Ascending(Elements(get(d, list_name, None).v) \ {k.n : k \in removed}))>>>>

RemoveAddresses(d, removed) ==
    IF removed = {} THEN <<>>
    ELSE RemoveFromDict(d, K_addr_history, removed) \o RemoveFromDict(d, K_labels, removed)
         \o RemoveFromDict(d, K_payment_requests, removed)
         \o RemoveFromList(d, K_frozen_addresses, removed)

\* the addresses convert_version_16 keeps: details None become {}
AddressesNew(a) ==
    [k \in {j \in DOMAIN a : is_address_valid(j)} |->
       IF a[k].t = "None" THEN ADict(<<>>) ELSE a[k]]

\* WalletStorage.convert_version_16()
Convert16Body(S, wallet_type, addresses) ==
    IF wallet_type # T_imported THEN Stepped("none", Puts(S, <<<<K_seed_version, AnInt(16)>>>>))
    ELSE IF addresses.t # "dict" THEN Stepped("AssertionError", S)
    ELSE
      Stepped("none",
              Puts(S, RemoveAddresses(S.data, {k \in DOMAIN addresses.v : ~is_address_valid(k)})
                      \o <<<<K_addresses, ADict(AddressesNew(addresses.v))>>,
                           <<K_seed_version, AnInt(16)>>>>))

convert_version_16(S) ==
    Gated(S, _is_upgrade_method_needed(S.data, 15, 15),
          Convert16Body(S, get(S.data, K_wallet_type, None), get(S.data, K_addresses, None)))

\* WalletStorage.convert_version_17()
Convert17Body(S, wallet_type, addrs) ==
    IF wallet_type # T_imported THEN Stepped("none", Puts(S, <<<<K_seed_version, AnInt(17)>>>>))
    ELSE IF addrs.t # "dict" THEN Stepped("AttributeError", S)
    ELSE IF \A k \in DOMAIN addrs.v : Truthy(addrs.v[k]) THEN
      Stepped("none", Puts(S, <<<<K_wallet_type, T_imported_privkey>>,
                                <<K_seed_version, AnInt(17)>>>>))
    ELSE
      Stepped("none", Puts(S, <<<<K_wallet_type, T_imported_addr>>,
                                <<K_seed_version, AnInt(17)>>>>))

convert_version_17(S) ==
    Gated(S, _is_upgrade_method_needed(S.data, 16, 16),
          Convert17Body(S, get(S.data, K_wallet_type, None), get(S.data, K_addresses, None)))

\* os.urandom(32).hex()
NewAesKey == Val("str", <<3>>, 0)

\* convert_version_18: the key is made if the document has none; the bulk
\* data goes to the external repository (see handoff) and leaves the document
PutAesKey(S) ==
    IF K_tx_store_aeskey \in DOMAIN S.data THEN S
    ELSE Puts(S, <<<<K_tx_store_aeskey, NewAesKey>>>>)

\* WalletStorage.convert_version_18()
Convert18Body(S) ==
    Stepped("none",
            Puts(PutAesKey(S),
                 <<<<K_addresses, None>>, <<K_addr_history, None>>, <<K_frozen_addresses, None>>,
                   <<K_frozen_coins, None>>, <<K_pruned_txo, None>>, <<K_transactions, None>>,
                   <<K_txi, None>>, <<K_txo, None>>, <<K_tx_fees, None>>,
                   <<K_verified_tx3, None>>, <<K_wallet_author, ESV>>,
                   <<K_seed_version, AnInt(18)>>>>))

convert_version_18(S) == Gated(S, _is_upgrade_method_needed(S.data, 17, 17), Convert18Body(S))
\* convert_version_19: the fields that move into the first subwallet
possible_wallet_fields ==
    <<K_gap_limit, K_invoices, K_keystore, K_labels, K_multiple_change, K_payment_requests,
      K_stored_height, K_use_change>>

MovedFields(d) == SelectSeq(possible_wallet_fields, LAMBDA k : k \in DOMAIN d)

\* the names 'x1/' .. 'xn/' of the cosigner keystores
CosignerNames(mn) == IF mn = <<>> THEN {} ELSE {K_x1, K_x2}

\* wallet_data: the type, the moved fields, the cosigner keystores and the id
WalletDataOf(d, wallet_type) ==
    [k \in {F_wallet_type, F_id} \cup Elements(MovedFields(d))
           \cup CosignerNames(multisig_type(wallet_type)) |->
       IF k = F_wallet_type THEN wallet_type
       ELSE IF k = F_id THEN AnInt(0)
       ELSE get(d, k, None)]

\* the puts of None for the moved fields; the multisig loop puts None again
\* for the last field name of the loop before it ('use_change')
MovedPuts(fields) == [i \in 1..Len(fields) |-> <<fields[i], None>>]

\* WalletStorage.convert_version_19()
Convert19Body(S, wallet_type) ==
    IF wallet_type.t = "None" THEN Stepped("AssertionError", S)
    ELSE IF K_tx_store_aeskey \notin DOMAIN S.data THEN
      Stepped("TypeError",
              Puts(S, MovedPuts(MovedFields(S.data))
                      \o <<<<K_use_change, None>>,
                           <<K_subwallets, AList(<<ADict(WalletDataOf(S.data, wallet_type))>>)>>>>))
    ELSE
      Stepped("none",
              Puts(S, MovedPuts(MovedFields(S.data))
                      \o <<<<K_use_change, None>>,
                           <<K_subwallets, AList(<<ADict(WalletDataOf(S.data, wallet_type))>>)>>,
                           <<K_seed_version, AnInt(19)>>>>))

\* a step 19 that runs again on a document that is at version 19
convert_version_19_again(S) ==
    Gated(S, _is_upgrade_method_needed(S.data, 18, 19),
          Convert19Body(S, get(S.data, K_wallet_type, None)))

convert_version_19(S) ==
    Gated(S, _is_upgrade_method_needed(S.data, 18, 18),
          Convert19Body(S, get(S.data, K_wallet_type, None)))

\* the ladder of upgrade(), in order, after _backup_wallet(); the last entry
\* is self.put('seed_version', FINAL_SEED_VERSION)
RunStep(name, S) ==
    CASE name = "convert_imported" -> convert_imported(S)
      [] name = "convert_wallet_type" -> convert_wallet_type(S)
      [] name = "convert_account" -> convert_account(S)
      [] name = "convert_version_13_b" -> convert_version_13_b(S)
      [] name = "convert_version_14" -> convert_version_14(S)
      [] name = "convert_version_15" -> convert_version_15(S)
      [] name = "convert_version_16" -> convert_version_16(S)
      [] name = "convert_version_17" -> convert_version_17(S)
      [] name = "convert_version_18" -> convert_version_18(S)
      [] name = "convert_version_19" -> convert_version_19(S)
      [] name = "put" -> Stepped("none", Puts(S, <<<<K_seed_version, AnInt(FINAL_SEED_VERSION)>>>>))

Ladder ==
    <<"convert_imported", "convert_wallet_type", "convert_account", "convert_version_13_b",
      "convert_version_14", "convert_version_15", "convert_version_16", "convert_version_17",
      "convert_version_18", "convert_version_19", "put">>

\* the steps from the i-th on, until one raises
RECURSIVE RunFrom(_, _)
RunFrom(i, R) ==
    IF i > Len(Ladder) \/ R.err # "none" THEN R
    ELSE RunFrom(i + 1, RunStep(Ladder[i], Stored(R.data, R.modified)))

\* upgrade() without its backup and its write: what the ladder leaves
RunLadder(S) == RunFrom(1, Stepped("none", S))

\* ============================================= the migration ladder: documents
\* The wallet files the store is opened on.  An account; a pending account;
\* the imported account '/x' with its entries address -> [pubkey, privkey].
Account(n) == ADict(F_change :> AList(<<>>) @@ F_receiving :> AList(<<n>>))
PendingAccount == ADict(F_pending :> Val("bool", <<1>>, 0))
ImportedAccount(entries) == ADict(F_imported :> ADict(entries))

\* entries with a private key, entries without (one of them no valid
\* address), and both
OnlyKeys == StrKey(address_of(1)) :> AList(<<1, 5>>) @@ StrKey(address_of(2)) :> AList(<<2, 6>>)
OnlyAddresses == StrKey(9) :> AList(<<0, 0>>) @@ StrKey(address_of(3)) :> AList(<<0, 0>>)
Mixed == StrKey(address_of(1)) :> AList(<<1, 5>>) @@ StrKey(address_of(3)) :> AList(<<0, 0>>)

\* the master keys under the names of a set
MasterPublicKeys(names) == ADict([k \in names |-> XPubOf(k)])
MasterPrivateKeys(names) == ADict([k \in names |-> XPrvOf(k)])

\* an 'old' wallet (seed_version 4) with the accounts given
OldWallet(accounts) ==
    K_seed_version :> AnInt(4) @@ K_wallet_type :> T_old @@ K_master_public_key :> OldMpk
    @@ K_seed :> ASeed @@ K_accounts :> ADict(accounts)

\* a wallet of version 11 of a type, with master keys and accounts
Wallet11(wallet_type, names, accounts) ==
    K_seed_version :> AnInt(11) @@ K_wallet_type :> wallet_type
    @@ K_master_public_keys :> MasterPublicKeys(names)
    @@ K_master_private_keys :> MasterPrivateKeys(names)
    @@ K_labels :> ADict(StrKey(9) :> AStr(1))
    @@ K_accounts :> ADict(accounts)

\* a wallet that holds only the imported account, at a seed_version
ImportedWallet(seed_version, entries) ==
    K_seed_version :> AnInt(seed_version) @@ K_wallet_type :> T_imported
    @@ K_accounts :> ADict(A_x :> ImportedAccount(entries))
    @@ K_frozen_addresses :> AList(<<9>>)

\* a standard wallet with its keystore, at a seed_version from 13 on
KeystoreWallet(seed_version) ==
    K_seed_version :> AnInt(seed_version) @@ K_wallet_type :> T_standard
    @@ K_keystore :> ADict(F_type :> T_bip32 @@ F_xpub :> XPubOf(X_root) @@ F_xprv :> None)
    @@ K_labels :> ADict(StrKey(9) :> AStr(1))
    @@ K_transactions :> ADict(StrKey(8) :> AStr(2))
    @@ K_fees :> ADict(StrKey(8) :> AnInt(1))

\* the same written by this program: 'wallet_author' and the key are there
AuthoredWallet(seed_version) ==
    KeystoreWallet(seed_version) @@ K_wallet_author :> ESV @@ K_tx_store_aeskey :> NewAesKey

\* a wallet of version 17 that holds a key for the external repository
KeyedWallet == KeystoreWallet(17) @@ K_tx_store_aeskey :> AStr(5)

\* a wallet of the final version
FinalWallet ==
    K_seed_version :> AnInt(FINAL_SEED_VERSION) @@ K_wallet_author :> ESV
    @@ K_tx_store_aeskey :> NewAesKey
    @@ K_subwallets :> AList(<<ADict(F_wallet_type :> T_standard @@ F_id :> AnInt(0))>>)

\* a wallet a later program wrote
FutureWallet == [FinalWallet EXCEPT ![K_seed_version] = AnInt(FINAL_SEED_VERSION + 1)]

\* a document that stores no seed_version
Unversioned(d) == [k \in DOMAIN d \ {K_seed_version} |-> d[k]]

LegacyDocuments ==
    {OldWallet(A_0 :> Account(1) @@ A_x :> ImportedAccount(x)) :
        x \in {OnlyKeys, OnlyAddresses, Mixed}}
    \cup {OldWallet(A_0 :> Account(1)),
          OldWallet(A_0 :> Account(1) @@ A_1 :> Account(2) @@ A_x :> ImportedAccount(OnlyKeys))}
    \cup {Wallet11(T_bip44, {X_0, X_1}, A_0 :> Account(1) @@ A_1 :> a) :
            a \in {Account(2), PendingAccount}}
    \cup {Wallet11(T_bip44, {X_0}, A_0 :> Account(1)),
          Wallet11(T_standard, {X_root}, A_0 :> Account(1)),
          Wallet11(T_standard, {X_root}, A_0 :> Account(1) @@ A_1 :> Account(2)),
          Wallet11(T_btchip, {X_0}, A_0 :> Account(1)),
          Wallet11(T_2of2, {K_x1, K_x2}, A_0 :> Account(1)),
          Wallet11(T_other, {X_root}, A_0 :> Account(1))}
    \cup {ImportedWallet(v, x) : v \in {9, 11, 13}, x \in {OnlyKeys, OnlyAddresses, Mixed}}
    \cup {KeystoreWallet(v) : v \in {13, 15, 17, 18}}
    \cup {AuthoredWallet(18), KeyedWallet, FinalWallet, FutureWallet}
    \cup {Unversioned(OldWallet(A_0 :> Account(1))),
          Unversioned(Wallet11(T_standard, {X_root}, A_0 :> Account(1)))}

\* =============================================== the migration ladder: the calls
\* the calls made on a store and its file
MaxMigrationCalls == 3

\* WalletStorage.file_exists(): _file_exists is set with raw, by __init__ on
\* an existing file and by _write
file_exists(r) == r # NoFile

\* a store that takes no file for an encrypted one
is_encrypted_never(r) == FALSE

\* WalletStorage.is_encrypted(): the raw content begins with the magic bytes
is_encrypted(r) == r.enc # 0

\* WalletStorage.requires_upgrade(): the exception, or the answer
Required(err, v) == [err |-> err, v |-> v]

\* a requires_upgrade that does not look at the marker
RequiresUpgradeAnyAuthor(cur, author) ==
    IF cur.err # "none" THEN Required(cur.err, FALSE)
    ELSE IF cur.v < FINAL_SEED_VERSION THEN Required("none", TRUE)
    ELSE Required("none", FALSE)

RequiresUpgradeAt(cur, author) ==
    IF cur.err # "none" THEN Required(cur.err, FALSE)
    ELSE IF cur.v <= 17 THEN Required("none", TRUE)
    ELSE IF cur.v < FINAL_SEED_VERSION THEN
      IF author = ESV THEN Required("none", TRUE)
      ELSE Required("IncompatibleWalletError", FALSE)
    ELSE Required("none", FALSE)

requires_upgrade(d, r) ==
    IF file_exists(r) THEN RequiresUpgradeAt(get_seed_version(d), get(d, K_wallet_author, None))
    ELSE Required("none", FALSE)

\* WalletStorage._get_wallet_backup_path(): the first number not in use
RECURSIVE BackupAttempt(_, _, _)
BackupAttempt(files, of, attempt) ==
    IF Path(of, "backup", attempt) \notin DOMAIN files THEN Path(of, "backup", attempt)
    ELSE BackupAttempt(files, of, attempt + 1)

\* a backup path that does not look for a number not in use
_get_wallet_backup_path_first(files, of) == Path(of, "backup", 1)

_get_wallet_backup_path(files, of) == BackupAttempt(files, of, 1)

\* the files with content under a path, and without a path
WithFile(files, path, content) ==
    [p \in DOMAIN files \cup {path} |-> IF p = path THEN content ELSE files[p]]
WithoutFile(files, path) == [p \in DOMAIN files \ {path} |-> files[p]]

\* the temp file of _write: path.tmp.<pid>
temp_path == Path("", "tmp", 0)

\* The external repository of the wallet at a path, WalletData(self.path,
\* key, 0): a file next to the wallet, which holds the calls that handed
\* entries to it, in order.
db_path(of) == Path(of, "database", 0)
Repository(handed) == [handed |-> handed]
Handoff(store, entries) == [store |-> store, entries |-> entries]

\* add_many / add_entries is called only if there are entries
BulkHandoff(store, entries) ==
    IF entries.v = <<>> THEN <<>> ELSE <<Handoff(store, entries)>>

\* the calls convert_version_18 makes on the repository for the document
HandedBy(d) ==
    BulkHandoff("tx_store", get(d, K_transactions, ADict(<<>>)))
    \o BulkHandoff("txin_store", get(d, K_txi, ADict(<<>>)))
    \o BulkHandoff("txout_store", get(d, K_txo, ADict(<<>>)))
    \o (IF K_addresses \in DOMAIN d
          THEN <<Handoff("misc_store", ADict(K_addresses :> get(d, K_addresses, None)))>>
          ELSE <<>>)
    \o <<Handoff("misc_store", ADict(K_addr_history :> get(d, K_addr_history, None))),
          Handoff("misc_store", ADict(K_frozen_addresses :> get(d, K_frozen_addresses, None))),
          Handoff("misc_store", ADict(K_frozen_coins :> get(d, K_frozen_coins, AList(<<>>)))),
          Handoff("misc_store", ADict(K_pruned_txo :> get(d, K_pruned_txo, ADict(<<>>))))>>

\* the calls made so far on the repository at a path
HandedTo(files, of) ==
    IF db_path(of) \in DOMAIN files THEN files[db_path(of)].handed ELSE <<>>

\* convert_version_18 on the files next to the wallet: when the step runs,
\* the repository is made and the bulk data of the document handed to it
handoff(files, of, needed, d) ==
    IF needed.err = "none" /\ needed.needed
      THEN WithFile(files, db_path(of), Repository(HandedTo(files, of) \o HandedBy(d)))
      ELSE files

\* the positions after a position of upgrade()
NextStep(name) ==
    IF name = "put" THEN "_write"
    ELSE Ladder[1 + CHOOSE i \in 1..Len(Ladder) : Ladder[i] = name]

\* the files before any store is made: a wallet file, and maybe a backup of
\* an earlier upgrade next to it
MigrationInit ==
    /\ file \in {Content(0, d) : d \in LegacyDocuments} \cup {NoFile}
    /\ dir \in {<<>>, Path("", "backup", 1) :> Content(0, FinalWallet)}
    /\ os_name \in {"posix", "nt"}
    /\ manual_upgrades = FALSE
    /\ data = <<>> /\ modified = FALSE /\ pubkey = 0 /\ store_raw = NoFile
    /\ held = NotHeld
    /\ sop = StoreOp("none", "none", StrKey(0), None, None, "main", FALSE)
    /\ pc = "none" /\ frame = NoFrame
    /\ NoTransaction

\* a call begins
MigrationCall ==
    /\ calls < MaxMigrationCalls /\ calls' = calls + 1
    /\ UNCHANGED <<raw, inputs, has_inputs, outputs, has_outputs, locktime, version, op,
                   returned, os_name, held>>

\* a call in progress goes on
MigrationStep ==
    UNCHANGED <<raw, inputs, has_inputs, outputs, has_outputs, locktime, version, op, calls,
                returned, os_name, held, manual_upgrades>>

\* the position a call leaves when it ends: the constructor that raises
\* leaves no object
Ended(name, err) == IF name = "open" /\ err # "none" THEN "none" ELSE "idle"

\* WalletStorage(path, manual_upgrades): __init__ and load_data up to the
\* call of upgrade(); load_data is not called for an encrypted file
Open ==
    /\ MigrationCall
    /\ pc = "none"
    /\ \E manual \in BOOLEAN :
         /\ manual_upgrades' = manual
         /\ frame' = Frame(file, dir, IF file = NoFile THEN <<>> ELSE load_file(file), FALSE,
                           NoFile)
         /\ UNCHANGED <<file, dir, pubkey>>
         /\ IF file = NoFile THEN
              /\ data' = NewDocument.data /\ modified' = NewDocument.modified
              /\ store_raw' = NoFile
              /\ pc' = "idle"
              /\ sop' = StoreOp("open", "none", StrKey(0), None, None, "main", FALSE)
            ELSE
              /\ store_raw' = file
              /\ modified' = FALSE
              /\ \E d \in {load_file(file)} :
                   IF manual \/ is_encrypted(file) THEN
                     /\ data' = d /\ pc' = "idle"
                     /\ sop' = StoreOp("open", "none", StrKey(0), None, None, "main", FALSE)
                   ELSE IF requires_split(d) THEN
                     /\ data' = <<>> /\ pc' = "none"
                     /\ sop' = StoreOp("open", "Exception: must be split", StrKey(0), None, None,
                                       "main", FALSE)
                   ELSE IF requires_upgrade(d, file).err # "none" THEN
                     /\ data' = <<>> /\ pc' = "none"
                     /\ sop' = StoreOp("open", requires_upgrade(d, file).err, StrKey(0), None,
                                       None, "main", FALSE)
                   ELSE
                     /\ data' = d
                     /\ pc' = IF requires_upgrade(d, file).v THEN "_backup_wallet" ELSE "idle"
                     /\ sop' = StoreOp("open", "none", StrKey(0), None, None, "main", FALSE)

\* upgrade() is called on the store
Upgrade ==
    /\ MigrationCall
    /\ pc = "idle"
    /\ pc' = "_backup_wallet"
    /\ frame' = Frame(file, dir, data, modified, NoFile)
    /\ sop' = StoreOp("upgrade", "none", StrKey(0), None, None, "main", FALSE)
    /\ UNCHANGED <<data, modified, pubkey, store_raw, file, dir, manual_upgrades>>

\* WalletStorage._backup_wallet()
BackupWallet ==
    /\ MigrationStep
    /\ pc = "_backup_wallet"
    /\ dir' = IF file_exists(store_raw)
                THEN WithFile(dir, _get_wallet_backup_path(dir, ""), file)
                ELSE dir
    /\ pc' = Ladder[1]
    /\ UNCHANGED <<data, modified, pubkey, store_raw, file, sop, frame>>

\* one step of the ladder of upgrade(): the step at the position runs
\* a ladder that goes on to the next step when a step has raised
LadderStepOn(name) ==
    /\ MigrationStep
    /\ pc = name
    /\ \E r \in {RunStep(name, Stored(data, modified))} :
         /\ data' = r.data
         /\ modified' = r.modified
         /\ pc' = NextStep(name)
         /\ sop' = [sop EXCEPT !.err = r.err]
         /\ frame' = IF r.err # "none" THEN [frame EXCEPT !.raised = name] ELSE frame
    /\ UNCHANGED <<pubkey, store_raw, file, dir>>

LadderStep(name) ==
    /\ MigrationStep
    /\ pc = name
    /\ \E r \in {RunStep(name, Stored(data, modified))} :
         /\ data' = IF r.err # "none" /\ sop.name = "open" THEN <<>> ELSE r.data
         /\ modified' = r.modified
         /\ pc' = IF r.err # "none" THEN Ended(sop.name, r.err) ELSE NextStep(name)
         /\ sop' = [sop EXCEPT !.err = r.err]
         /\ frame' = IF r.err # "none" THEN [frame EXCEPT !.raised = name] ELSE frame
    /\ dir' = IF name = "convert_version_18"
                THEN handoff(dir, "", _is_upgrade_method_needed(data, 17, 17), data)
                ELSE dir
    /\ UNCHANGED <<pubkey, store_raw, file>>

ConvertImported == LadderStep("convert_imported")
ConvertWalletType == LadderStep("convert_wallet_type")
ConvertAccount == LadderStep("convert_account")
ConvertVersion13b == LadderStep("convert_version_13_b")
ConvertVersion14 == LadderStep("convert_version_14")
ConvertVersion15 == LadderStep("convert_version_15")
ConvertVersion16 == LadderStep("convert_version_16")
ConvertVersion17 == LadderStep("convert_version_17")
ConvertVersion18 == LadderStep("convert_version_18")
ConvertVersion19 == LadderStep("convert_version_19")
PutFinalSeedVersion == LadderStep("put")
\* write() is called on the store, on a thread
WriteCall ==
    /\ MigrationCall
    /\ pc = "idle"
    /\ pc' = "_write"
    /\ frame' = Frame(file, dir, data, modified, NoFile)
    /\ \E thread \in {"main", "daemon"} :
         sop' = StoreOp("write", "none", StrKey(0), None, None, thread, FALSE)
    /\ UNCHANGED <<data, modified, pubkey, store_raw, file, dir, manual_upgrades>>

\* _write() up to the temp file: the tests, json.dumps, the encryption, and
\* the temp file written, flushed and synced
WriteTemp ==
    /\ MigrationStep
    /\ pc = "_write"
    /\ IF isDaemon(sop.thread) \/ ~modified THEN
         /\ pc' = "idle"
         /\ UNCHANGED <<data, dir, sop, frame>>
       ELSE IF sort_keys_raises(data) THEN
         /\ pc' = Ended(sop.name, "TypeError")
         /\ data' = IF sop.name = "open" THEN <<>> ELSE data
         /\ sop' = [sop EXCEPT !.err = "TypeError"]
         /\ frame' = [frame EXCEPT !.raised = "_write"]
         /\ UNCHANGED dir
       ELSE
         /\ dir' = WithFile(dir, temp_path, encrypt_message(json_dumps(data), pubkey))
         /\ frame' = [frame EXCEPT !.s = encrypt_message(json_dumps(data), pubkey)]
         /\ sop' = [sop EXCEPT !.temp = TRUE]
         /\ pc' = "rename"
         /\ UNCHANGED data
    /\ UNCHANGED <<modified, pubkey, store_raw, file>>

\* os.rename(temp_path, path) replaces the target, except on "nt", where it
\* raises when the target exists
rename_raises(os, target) == os = "nt" /\ target # NoFile

\* _write(): os.stat(path) and the first os.rename(temp_path, self.path)
Rename ==
    /\ MigrationStep
    /\ pc = "rename"
    /\ IF file_exists(store_raw) /\ file = NoFile THEN
         /\ pc' = Ended(sop.name, "FileNotFoundError")
         /\ data' = IF sop.name = "open" THEN <<>> ELSE data
         /\ sop' = [sop EXCEPT !.err = "FileNotFoundError"]
         /\ frame' = [frame EXCEPT !.raised = "rename"]
         /\ UNCHANGED <<file, dir>>
       ELSE IF rename_raises(os_name, file) THEN
         /\ pc' = "remove"
         /\ UNCHANGED <<data, sop, frame, file, dir>>
       ELSE
         /\ file' = dir[temp_path]
         /\ dir' = WithoutFile(dir, temp_path)
         /\ pc' = "chmod"
         /\ UNCHANGED <<data, sop, frame>>
    /\ UNCHANGED <<modified, pubkey, store_raw>>

\* _write(), in the except branch: os.remove(self.path)
Remove ==
    /\ MigrationStep
    /\ pc = "remove"
    /\ file' = NoFile
    /\ pc' = "rename_again"
    /\ UNCHANGED <<data, modified, pubkey, store_raw, dir, sop, frame>>

\* _write(), in the except branch: os.rename(temp_path, self.path)
RenameAgain ==
    /\ MigrationStep
    /\ pc = "rename_again"
    /\ file' = dir[temp_path]
    /\ dir' = WithoutFile(dir, temp_path)
    /\ pc' = "chmod"
    /\ UNCHANGED <<data, modified, pubkey, store_raw, sop, frame>>

\* _write(): os.chmod, and _file_exists, raw and modified are set
Chmod ==
    /\ MigrationStep
    /\ pc = "chmod"
    /\ store_raw' = frame.s
    /\ modified' = FALSE
    /\ pc' = "idle"
    /\ UNCHANGED <<data, pubkey, file, dir, sop, frame>>

\* the process stops, at any position: the store is gone, the files stay
Stop ==
    /\ MigrationCall
    /\ pc # "none"
    /\ data' = <<>> /\ modified' = FALSE /\ pubkey' = 0 /\ store_raw' = NoFile
    /\ pc' = "none"
    /\ sop' = StoreOp("stop", "none", StrKey(0), None, None, sop.thread, sop.temp)
    /\ UNCHANGED <<file, dir, frame, manual_upgrades>>

\* requires_upgrade() is called on the store
RequiresUpgrade ==
    /\ MigrationCall
    /\ pc = "idle"
    /\ \E r \in {requires_upgrade(data, store_raw)} :
         sop' = StoreOp("requires_upgrade", r.err, StrKey(0), None,
                        Val("bool", <<IF r.v THEN 1 ELSE 0>>, 0), "main", FALSE)
    /\ frame' = Frame(file, dir, data, modified, NoFile)
    /\ UNCHANGED <<data, modified, pubkey, store_raw, file, dir, pc, manual_upgrades>>

\* the caller puts a value of its own
CallerPut ==
    /\ MigrationCall
    /\ pc = "idle"
    /\ \E r \in {put(data, modified, StrKey(1), AString)} :
         /\ data' = r.data /\ modified' = r.modified
    /\ sop' = StoreOp("put", "none", StrKey(1), AString, None, "main", FALSE)
    /\ frame' = Frame(file, dir, data, modified, NoFile)
    /\ UNCHANGED <<pubkey, store_raw, file, dir, pc, manual_upgrades>>
\* ========================================== the migration ladder: split_accounts
\* The stores split_accounts makes are run whole: WalletStorage(new_path),
\* the document replaced by a deep copy, the puts, upgrade() and write().
\* what a run leaves: the exception, and the files next to the wallet
Ran(err, files) == [err |-> err, dir |-> files]

\* the file of the split wallet with a suffix
split_path(of) == Path(of, "wallet", 0)

\* write() of a store of split_accounts (no public key is set on it)
SubWrite(files, of, R) ==
    IF R.err # "none" THEN Ran(R.err, files)
    ELSE IF ~R.modified THEN Ran("none", files)
    ELSE IF sort_keys_raises(R.data) THEN Ran("TypeError", files)
    ELSE Ran("none", WithFile(files, split_path(of), Content(0, json_dumps(R.data))))

\* _backup_wallet() of a store of split_accounts
SubBackup(files, of, exists) ==
    IF exists THEN WithFile(files, _get_wallet_backup_path(files, of), files[split_path(of)])
    ELSE files

\* the ladder up to the step with a name, until a step raises
RECURSIVE RunUntil(_, _, _)
RunUntil(name, i, R) ==
    IF Ladder[i] = name \/ R.err # "none" THEN R
    ELSE RunUntil(name, i + 1, RunStep(Ladder[i], Stored(R.data, R.modified)))

\* convert_version_18 of a store of split_accounts on the files, with what
\* the steps before it have left
SubHandoff(files, of, R) ==
    IF R.err # "none" THEN files
    ELSE handoff(files, of, _is_upgrade_method_needed(R.data, 17, 17), R.data)

\* upgrade() of a store of split_accounts: the backup, the ladder, write()
SubUpgrade(files, of, S, exists) ==
    SubWrite(SubHandoff(SubBackup(files, of, exists), of,
                        RunUntil("convert_version_18", 1, Stepped("none", S))),
             of, RunLadder(S))

\* WalletStorage(new_path) when the file exists: load_data, which may raise
\* or run upgrade()
SubLoad(files, of, d) ==
    IF requires_split(d) THEN Ran("Exception: must be split", files)
    ELSE IF requires_upgrade(d, Content(0, d)).err # "none"
      THEN Ran(requires_upgrade(d, Content(0, d)).err, files)
    ELSE IF requires_upgrade(d, Content(0, d)).v THEN SubUpgrade(files, of, Stored(d, FALSE), TRUE)
    ELSE Ran("none", files)

SubOpen(files, of) ==
    IF split_path(of) \in DOMAIN files
      THEN SubLoad(files, of, load_file(files[split_path(of)]))
      ELSE Ran("none", files)

\* the store for one account: made, filled with the copy and the puts,
\* upgraded and written.  A store made on an existing file is not modified
\* by its constructor; a store made on a new path is (the three puts)
SubFilled(opened, of, d, kvs, existed) ==
    IF opened.err # "none" THEN opened
    ELSE SubUpgrade(opened.dir, of, Puts(Stored(d, ~existed), kvs), existed)

SubStore(files, of, d, kvs) ==
    SubFilled(SubOpen(files, of), of, d, kvs, split_path(of) \in DOMAIN files)

\* what split_accounts has to do for one account: the exception raised
\* before the store is made (pre) or after it is made and before the puts
\* (post), the suffix and the puts; skip for a pending account
SubPlan(of, pre, post, kvs, skip) == [of |-> of, pre |-> pre, post |-> post, kvs |-> kvs, skip |-> skip]

\* the plans carried out in order until one raises: the exception, the
\* files, and the suffixes of the wallets made
Split(err, files, result) == [err |-> err, dir |-> files, result |-> result]

SplitOne(plan, acc, d, ran) ==
    IF plan.skip THEN acc
    ELSE IF plan.pre # "none" THEN Split(plan.pre, acc.dir, acc.result)
    ELSE IF plan.post # "none" THEN Split(plan.post, SubOpen(acc.dir, plan.of).dir, acc.result)
    ELSE Split(ran.err, ran.dir, IF ran.err = "none" THEN Append(acc.result, plan.of)
                                 ELSE acc.result)

RECURSIVE SplitFold(_, _, _)
SplitFold(plans, acc, d) ==
    IF plans = <<>> \/ acc.err # "none" THEN acc
    ELSE SplitFold(Tail(plans),
                   SplitOne(plans[1], acc, d, SubStore(acc.dir, plans[1].of, d, plans[1].kvs)),
                   d)

\* the 'old' branch: the deterministic wallet and the imported wallet
OldPlans(accounts) ==
    <<SubPlan("deterministic", "none",
              IF A_0 \in DOMAIN accounts THEN "none" ELSE "KeyError",
              <<<<K_accounts, ADict(A_0 :> DictGet(ADict(accounts), A_0))>>>>, FALSE),
      SubPlan("imported", "none",
              IF A_x \in DOMAIN accounts THEN "none" ELSE "KeyError",
              <<<<K_accounts, ADict(A_x :> DictGet(ADict(accounts), A_x))>>,
                <<K_seed, None>>, <<K_seed_version, None>>, <<K_master_public_key, None>>,
                <<K_wallet_type, T_imported>>>>, FALSE)>>

\* the suffix of the account k, int(k), and the key "x/<k>'" of its xpub
AccountSuffix(k) == IF k = A_0 THEN "0" ELSE IF k = A_1 THEN "1" ELSE "/x"
AccountNumber(k) == k.n - A_0.n
AccountXpubName(k) == IF k = A_0 THEN X_0 ELSE X_1

\* the bip44 and hardware branch: one wallet per account that is not pending
AccountPlan(k, x, mpk) ==
    IF k \notin {A_0, A_1} THEN SubPlan(AccountSuffix(k), "ValueError", "none", <<>>, FALSE)
    ELSE IF Truthy(DictGet(x, F_pending)) THEN SubPlan(AccountSuffix(k), "none", "none", <<>>, TRUE)
    ELSE IF GetItem(mpk, AccountXpubName(k)).err # "none" THEN
      SubPlan(AccountSuffix(k), GetItem(mpk, AccountXpubName(k)).err, "none", <<>>, FALSE)
    ELSE
      SubPlan(AccountSuffix(k), "none", "none",
              <<<<K_accounts, ADict(A_0 :> x)>>,
                <<K_master_public_keys, ADict(X_0 :> GetItem(mpk, AccountXpubName(k)).v)>>,
                <<K_derivation, bip44_derivation(AccountNumber(k))>>>>, FALSE)

AccountPlans(keys, accounts, mpk) ==
    [i \in 1..Len(keys) |-> AccountPlan(keys[i], accounts[keys[i]], mpk)]

\* WalletStorage.split_accounts() on the document d with the files next to
\* the wallet
SplitAccountsOf(d, files, accounts, wallet_type) ==
    IF Cardinality(DOMAIN accounts) < 2 THEN Split("none", files, <<>>)
    ELSE IF wallet_type = T_old THEN
      IF Cardinality(DOMAIN accounts) # 2 THEN Split("AssertionError", files, <<>>)
      ELSE SplitFold(OldPlans(accounts), Split("none", files, <<>>), d)
    ELSE IF wallet_type \in {T_bip44, T_trezor, T_keepkey, T_ledger, T_btchip,
                             T_digitalbitbox} THEN
      SplitFold(AccountPlans(KeySeq(DOMAIN accounts), accounts,
                             get(d, K_master_public_keys, None)),
                Split("none", files, <<>>), d)
    ELSE Split("Exception: must be split", files, <<>>)

split_accounts(d, files) ==
    SplitAccountsOf(d, files, get(d, K_accounts, ADict(<<>>)).v, get(d, K_wallet_type, None))

\* split_accounts() is called on the store
SplitAccounts ==
    /\ MigrationCall
    /\ pc = "idle"
    /\ \E r \in {split_accounts(data, dir)} :
         /\ dir' = r.dir
         /\ sop' = StoreOp("split_accounts", r.err, StrKey(0), None, AList(r.result), "main",
                           FALSE)
    /\ frame' = Frame(file, dir, data, modified, NoFile)
    /\ UNCHANGED <<data, modified, pubkey, store_raw, file, pc, manual_upgrades>>

\* WalletStorage.decrypt(password): the content decrypted, the public key
\* kept, then load_data up to the call of upgrade()
DecryptCall ==
    /\ MigrationCall
    /\ pc = "idle"
    /\ frame' = Frame(file, dir, data, modified, NoFile)
    /\ UNCHANGED <<modified, store_raw, file, dir, manual_upgrades>>
    /\ \E password \in {Password, WrongPassword} :
         \E r \in {decrypt(store_raw, password)} :
           IF r.err # "none" THEN
             /\ UNCHANGED <<data, pubkey, pc>>
             /\ sop' = StoreOp("decrypt", r.err, StrKey(0), None, None, "main", FALSE)
           ELSE
             /\ pubkey' = password
             /\ data' = r.data
             /\ IF manual_upgrades THEN
                  /\ pc' = "idle"
                  /\ sop' = StoreOp("decrypt", "none", StrKey(0), None, None, "main", FALSE)
                ELSE IF requires_split(r.data) THEN
                  /\ pc' = "idle"
                  /\ sop' = StoreOp("decrypt", "Exception: must be split", StrKey(0), None,
                                    None, "main", FALSE)
                ELSE IF requires_upgrade(r.data, store_raw).err # "none" THEN
                  /\ pc' = "idle"
                  /\ sop' = StoreOp("decrypt", requires_upgrade(r.data, store_raw).err,
                                    StrKey(0), None, None, "main", FALSE)
                ELSE
                  /\ pc' = IF requires_upgrade(r.data, store_raw).v THEN "_backup_wallet"
                           ELSE "idle"
                  /\ sop' = StoreOp("decrypt", "none", StrKey(0), None, None, "main", FALSE)

MigrationNext ==
    \/ Open \/ Upgrade \/ BackupWallet
    \/ ConvertImported \/ ConvertWalletType \/ ConvertAccount \/ ConvertVersion13b
    \/ ConvertVersion14 \/ ConvertVersion15 \/ ConvertVersion16 \/ ConvertVersion17
    \/ ConvertVersion18 \/ ConvertVersion19 \/ PutFinalSeedVersion
    \/ WriteCall \/ WriteTemp \/ Rename \/ Remove \/ RenameAgain \/ Chmod
    \/ Stop \/ RequiresUpgrade \/ CallerPut \/ SplitAccounts

MigrationSpec == MigrationInit /\ [][MigrationNext]_vars


\* ===================================================================== claims
\* count(non-empty signatures) of one input
SignatureCount(txin) == Len(NonEmpty(txin.signatures))

\* every non-coinbase input holds exactly num_sig non-empty signatures
EveryInputComplete(ins) ==
    \A i \in 1..Len(ins) :
      ins[i].type # "coinbase" => SignatureCount(ins[i]) = ins[i].num_sig

\* a non-coinbase input whose signature set is incomplete
Incomplete(txin) == txin.type # "coinbase" /\ SignatureCount(txin) # txin.num_sig

\* which slots of an input are filled
SlotPattern(txin) == [j \in 1..Len(txin.signatures) |-> txin.signatures[j] # <<>>]

SameOutpoint(a, b) ==
    /\ a.prevout_hash = b.prevout_hash /\ a.prevout_n = b.prevout_n
    /\ a.sequence = b.sequence /\ a.type = b.type

\* the transaction the fields hold now, and after the step
Current == Tx(version, locktime, inputs, outputs)
After == Tx(version', locktime', inputs', outputs')

\* ------------------------------------------------------------------------ C1
\* C1: whenever the inputs are loaded, is_complete() is true exactly when
\* every non-coinbase input on its own holds count(non-empty signatures) ==
\* num_sig.
C1_CompleteIffEveryInputComplete ==
    has_inputs => (is_complete(inputs) <=> EveryInputComplete(inputs))

\* ------------------------------------------------------------------------ C2
\* r, the cached serialization of the loaded transaction tx, is None or
\* serialize() of tx
RawIsNoneOrCurrent(r, loaded, tx) ==
    (loaded /\ r # <<>>) => serialize(tx) = Ser("none", r)

\* C2: a call of add_signature_to_txin, sign, update_signatures, add_inputs,
\* add_outputs or BIP_LI01_sort, also one that raises, on a transaction whose
\* raw is None or serialize() of its fields leaves raw None or equal to
\* serialize() of the fields as they are after the call.
C2_RawIsNoneOrCurrent ==
    [][(/\ op'.name \in {"add_signature_to_txin", "sign", "update_signatures",
                         "add_inputs", "add_outputs", "BIP_LI01_sort"}
        /\ RawIsNoneOrCurrent(raw, has_inputs, Current))
         => RawIsNoneOrCurrent(raw', has_inputs', After)]_vars

\* ------------------------------------------------------------------------ C3
\* an unknown input whose scriptSig has the shape of no spend template
PlainUnknown(txin) ==
    txin.type = "unknown" =>
      /\ txin.x_pubkeys = <<>> /\ txin.signatures = <<>> /\ txin.num_sig = 0
      /\ \A p \in {_parse_scriptSig(NoTxIn, txin.scriptSig)} :
           p.err = "none" /\ p.d.type = "unknown"

\* the keys deserialize gives a complete input: the public keys the scriptSig
\* holds, and none for a p2pk spend
KeysRead(txin) ==
    IF txin.type \in {"p2pkh", "p2sh"} THEN Realise(txin.x_pubkeys).keys ELSE <<>>

\* b is what is read back of the complete input a
CompleteInputRead(a, b) ==
    /\ SameOutpoint(a, b)
    /\ a.type # "coinbase" =>
         /\ b.num_sig = a.num_sig
         /\ b.signatures = NonEmpty(a.signatures)
         /\ b.x_pubkeys = KeysRead(a)

\* b is a, field by field
InputKept(a, b) ==
    /\ SameOutpoint(a, b)
    /\ a.type # "coinbase" =>
         /\ b.num_sig = a.num_sig
         /\ b.signatures = a.signatures
         /\ b.x_pubkeys = a.x_pubkeys

C4_UnsignedRoundTrip ==
    (has_inputs /\ \E i \in 1..Len(inputs) : Incomplete(inputs[i])) =>
      \A ser \in {serialize(Current)} :
        ser.err = "none" =>
          \A d \in {deserialize(ser.s)} :
            /\ d.err = "none"
            /\ Len(d.inputs) = Len(inputs)
            /\ \A i \in 1..Len(inputs) :
                 /\ SameOutpoint(inputs[i], d.inputs[i])
                 /\ Incomplete(inputs[i]) =>
                      /\ d.inputs[i].value = inputs[i].value
                      /\ SlotPattern(d.inputs[i]) = SlotPattern(inputs[i])
            /\ d.outputs = outputs /\ d.lockTime = locktime

\* ------------------------------------------------------------------------ C5
\* C5: every input of kind p2pk, p2pkh or p2sh has as many signature slots
\* as x_pubkeys.
C5_OneSlotPerKey ==
    has_inputs =>
      \A i \in 1..Len(inputs) :
        inputs[i].type \in {"p2pk", "p2pkh", "p2sh"} =>
          Len(inputs[i].signatures) = Len(inputs[i].x_pubkeys)


\* ------------------------------------------------------------------------ C6
\* slot j of input i differs between the inputs before and after
SlotChanged(before, after, i, j) == after[i].signatures[j] # before[i].signatures[j]

\* C6: sign(keypairs) changes slot (i, j) only if the slot was empty before
\* the call and x_pubkeys[j] of input i is a key of keypairs.
C6_SignFillsOnlyEmptySlots ==
    [][op'.name = "sign" =>
         \A L \in {Loaded} :
           L.err = "none" =>
             \A i \in 1..Len(L.inputs) :
               \A j \in 1..Len(L.inputs[i].signatures) :
                 SlotChanged(L.inputs, inputs', i, j) =>
                   /\ L.inputs[i].signatures[j] = <<>>
                   /\ j <= Len(L.inputs[i].x_pubkeys)
                   /\ InKeypairs(L.inputs[i].x_pubkeys[j], op'.keypairs)]_vars

\* ------------------------------------------------------------------------ C7
\* C7 (amended): after sign(keypairs) returns, every input either holds
\* exactly num_sig non-empty signatures or has a non-empty slot j for every
\* declared key j that is in keypairs, and every signature the call stored
\* ends with the sighash-type byte 0x41.
C7_SignFillsUntilComplete ==
    [][(op'.name = "sign" /\ op'.err = "none") =>
         \A L \in {Loaded} :
           \A i \in 1..Len(L.inputs) :
             /\ \/ SignatureCount(inputs'[i]) = inputs'[i].num_sig
                \/ \A j \in 1..Len(L.inputs[i].x_pubkeys) :
                     InKeypairs(L.inputs[i].x_pubkeys[j], op'.keypairs) =>
                       inputs'[i].signatures[j] # <<>>
             /\ \A j \in 1..Len(L.inputs[i].signatures) :
                  SlotChanged(L.inputs, inputs', i, j) =>
                    inputs'[i].signatures[j][Len(inputs'[i].signatures[j])] = 65]_vars

\* sign returned for a 1-of-2 p2sh input with both keys in keypairs: slot 1
\* is filled and slot 2 is left empty
C7_Witness ==
    /\ op.name = "sign" /\ op.err = "none" /\ has_inputs
    /\ \E i \in 1..Len(inputs) :
         /\ inputs[i].type = "p2sh" /\ inputs[i].num_sig = 1
         /\ Len(inputs[i].signatures) = 2
         /\ inputs[i].signatures[1] # <<>> /\ inputs[i].signatures[2] = <<>>
         /\ \A j \in 1..2 : InKeypairs(inputs[i].x_pubkeys[j], op.keypairs)

\* C7 (as stated): after sign(keypairs) returns, slot j is non-empty for every
\* input and every declared key j of it that is in keypairs.
C7_EverySuppliedKeySigned ==
    [][(op'.name = "sign" /\ op'.err = "none") =>
         \A L \in {Loaded} :
           \A i \in 1..Len(L.inputs) :
             \A j \in 1..Len(L.inputs[i].x_pubkeys) :
               InKeypairs(L.inputs[i].x_pubkeys[j], op'.keypairs) =>
                 (j <= Len(inputs'[i].signatures) /\ inputs'[i].signatures[j] # <<>>)]_vars

\* ------------------------------------------------------------------------ C8
\* the raw public key of the keypair sign finds for x_pubkey
ResolvedKey(x_pubkey, keypairs) ==
    PublicKey_to_bytes(LookupKeypair(x_pubkey, keypairs).sec,
                       LookupKeypair(x_pubkey, keypairs).compressed)

\* C8 (amended): when sign stores a signature for a key of kind 0xfd, that
\* entry of x_pubkeys is replaced, at the index of the signature, by the raw
\* public key of the keypair; keys of every other kind, 0xfe among them, and
\* keys at other indices are left as they were.
C8_SignResolvesAddressKeys ==
    [][op'.name = "sign" =>
         \A L \in {Loaded} :
           L.err = "none" =>
             \A i \in 1..Len(L.inputs) :
               /\ Len(inputs'[i].x_pubkeys) = Len(L.inputs[i].x_pubkeys)
               /\ \A j \in 1..Len(L.inputs[i].x_pubkeys) :
                    IF /\ kind(L.inputs[i].x_pubkeys[j]) = 253
                       /\ j <= Len(L.inputs[i].signatures)
                       /\ SlotChanged(L.inputs, inputs', i, j)
                      THEN inputs'[i].x_pubkeys[j] =
                             ResolvedKey(L.inputs[i].x_pubkeys[j], op'.keypairs)
                      ELSE inputs'[i].x_pubkeys[j] = L.inputs[i].x_pubkeys[j]]_vars

\* sign stored a signature for the address key of a p2pkh input and left
\* the public key in its place
C8_Witness ==
    /\ op.name = "sign" /\ has_inputs
    /\ InKeypairs(XA, op.keypairs)
    /\ \E i \in 1..Len(inputs) :
         /\ inputs[i].prevout_hash = InputPool[4].prevout_hash
         /\ inputs[i].signatures[1] # <<>>
         /\ inputs[i].x_pubkeys = <<ResolvedKey(XA, op.keypairs)>>

\* C8 (as stated): when sign stores a signature for a key of kind 0xfe or
\* 0xfd, that entry of x_pubkeys is replaced by the resolved raw public key.
C8_SignResolvesLegacyAndAddressKeys ==
    [][op'.name = "sign" =>
         \A L \in {Loaded} :
           L.err = "none" =>
             \A i \in 1..Len(L.inputs) :
               \A j \in 1..Len(L.inputs[i].x_pubkeys) :
                 (/\ kind(L.inputs[i].x_pubkeys[j]) \in {253, 254}
                  /\ j <= Len(L.inputs[i].signatures)
                  /\ SlotChanged(L.inputs, inputs', i, j)) =>
                   inputs'[i].x_pubkeys[j] =
                     ResolvedKey(L.inputs[i].x_pubkeys[j], op'.keypairs)]_vars

\* ------------------------------------------------------------------------ C9
\* tx with every input but input i stripped to its outpoint and its
\* sequence number
OthersBare(tx, i) ==
    [tx EXCEPT !.inputs =
       [k \in 1..Len(tx.inputs) |->
          IF k = i THEN tx.inputs[k]
          ELSE [NoTxIn EXCEPT !.prevout_hash = tx.inputs[k].prevout_hash,
                              !.prevout_n = tx.inputs[k].prevout_n,
                              !.sequence = tx.inputs[k].sequence]]]

\* C9: a call of sign, update_signatures or add_signature_to_txin that
\* leaves input i as it was leaves preimage_hash(i) as it was, and
\* preimage_hash(i) is what it is for the transaction whose other inputs
\* hold nothing but their outpoints and sequence numbers.
C9_PreimageIgnoresOtherSignatures ==
    [][op'.name \in {"sign", "update_signatures", "add_signature_to_txin"} =>
         \A L \in {Loaded} :
           (L.err = "none" /\ Len(inputs') = Len(L.inputs)) =>
             \A i \in 1..Len(L.inputs) :
               /\ inputs'[i] = L.inputs[i] =>
                    preimage_hash(After, i) = preimage_hash(TxOf(L), i)
               /\ preimage_hash(After, i) = preimage_hash(OthersBare(After, i), i)]_vars

\* a signature was filled in for input 2 of a transaction whose input 1 is
\* unsigned and has a preimage hash
C9_Witness ==
    /\ op.name \in {"sign", "update_signatures", "add_signature_to_txin"}
    /\ op.err = "none" /\ has_inputs /\ Len(inputs) = 2
    /\ SignatureCount(inputs[1]) = 0 /\ SignatureCount(inputs[2]) > 0
    /\ preimage_hash(Current, 1).err = "none"

\* ----------------------------------------------------------------------- C10
\* C10 (amended): preimage_hash for an input that has no 'value' raises and
\* returns no digest; it raises InputValueMissing exactly when
\* get_preimage_script returns for the input, and otherwise the exception of
\* get_preimage_script; the inputs are as before.  A sign that raises
\* InputValueMissing leaves the slots of the inputs without a value as they
\* were.
C10_ValueMissing ==
    [][\A L \in {Loaded} :
         /\ (/\ op'.name = "preimage_hash" /\ op'.i > 0
             /\ L.inputs[op'.i].value = Absent) =>
              /\ op'.err # "none"
              /\ op'.sigs = << <<>> >>
              /\ \A script \in {get_preimage_script(L.inputs[op'.i])} :
                   IF script.err = "none" THEN op'.err = "InputValueMissing"
                   ELSE op'.err = script.err
              /\ inputs' = L.inputs
         /\ (op'.name = "sign" /\ op'.err = "InputValueMissing") =>
              \A i \in 1..Len(L.inputs) :
                L.inputs[i].value = Absent =>
                  inputs'[i].signatures = L.inputs[i].signatures]_vars

\* preimage_hash raised InputValueMissing for a p2pkh input without a value
C10_Witness ==
    /\ op.name = "preimage_hash" /\ op.err = "InputValueMissing" /\ op.i > 0
    /\ has_inputs
    /\ inputs[op.i].type = "p2pkh" /\ inputs[op.i].value = Absent

\* C10 (as stated): preimage_hash for an input that has no 'value' raises
\* InputValueMissing, whatever the kind of the input.
C10_AlwaysInputValueMissing ==
    [][\A L \in {Loaded} :
         (/\ op'.name = "preimage_hash" /\ op'.i > 0
          /\ L.inputs[op'.i].value = Absent) =>
           op'.err = "InputValueMissing"]_vars

\* ----------------------------------------------------------------------- C11
\* C11: update_signatures(signatures) on a transaction whose inputs each hold
\* num_sig signatures returns without changing a signature slot, a key list
\* or raw, whatever list is supplied; on a transaction with an incomplete
\* input whose input count differs from len(signatures) it raises the
\* length-mismatch error (RuntimeError) and changes no slot.
C11_CompleteNoOpElseLengthError ==
    [][op'.name = "update_signatures" =>
         \A L \in {Loaded} :
           L.err = "none" =>
             /\ EveryInputComplete(L.inputs) =>
                  (op'.err = "none" /\ inputs' = L.inputs /\ raw' = raw)
             /\ (~EveryInputComplete(L.inputs) /\ Len(L.inputs) # Len(op'.sigs)) =>
                  (op'.err = "RuntimeError" /\ inputs' = L.inputs)]_vars

\* ----------------------------------------------------------------------- C12
\* signature i of the list recovers, for some recovery id, declared key j of
\* input i over the input's preimage hash
KeyRecovered(tx, sigs, i, j) ==
    /\ j <= Len(tx.inputs[i].x_pubkeys)
    /\ \E pre_hash \in {preimage_hash(tx, i)}, key \in {to_public_key(tx.inputs[i].x_pubkeys[j])} :
         /\ pre_hash.err = "none"
         /\ \E recid \in 0..3 :
              /\ Recover(sigs[i], pre_hash.h, recid) # 0
              /\ key.t = "pub" /\ key.k = Recover(sigs[i], pre_hash.h, recid)

\* the preimage hash of input i is computed and signature i recovers none of
\* the input's declared keys
NoKeyRecovered(tx, sigs, i) ==
    /\ tx.inputs[i].type # "coinbase"
    /\ preimage_hash(tx, i).err = "none"
    /\ \A j \in 1..Len(tx.inputs[i].x_pubkeys) : ~KeyRecovered(tx, sigs, i, j)

\* signature i recovers a declared key of input i that has a slot
SomeKeyRecovered(tx, sigs, i) ==
    /\ tx.inputs[i].type # "coinbase"
    /\ \E j \in 1..Len(tx.inputs[i].signatures) : KeyRecovered(tx, sigs, i, j)

\* the call reaches the loop over the inputs
ReachesLoop(L, sigs) ==
    L.err = "none" /\ ~is_complete(L.inputs) /\ Len(L.inputs) = Len(sigs)

\* C12: in a call of update_signatures that reaches its loop, slot j of input
\* i is written only with signature i (plus the sighash-type byte) and only
\* when that signature recovers, for some recovery id, declared key j of
\* input i over input i's preimage; an input none of whose keys is recovered
\* keeps its slots; and when every input either recovers a key or recovers
\* none, nothing is raised by the loop and every input whose signature
\* recovers a key holds that signature in the key's slot, also after an
\* input that recovered none.
C12_WritesOnlyRecoveredSlot ==
    [][op'.name = "update_signatures" =>
         \A L \in {Loaded} :
           ReachesLoop(L, op'.sigs) =>
             /\ \A i \in 1..Len(L.inputs) : \A j \in 1..Len(L.inputs[i].signatures) :
                  SlotChanged(L.inputs, inputs', i, j) =>
                    /\ KeyRecovered(TxOf(L), op'.sigs, i, j)
                    /\ inputs'[i].signatures[j] = op'.sigs[i] \o <<nHashType>>
             /\ \A i \in 1..Len(L.inputs) :
                  NoKeyRecovered(TxOf(L), op'.sigs, i) =>
                    inputs'[i].signatures = L.inputs[i].signatures
             /\ (\A i \in 1..Len(L.inputs) :
                   NoKeyRecovered(TxOf(L), op'.sigs, i) \/ SomeKeyRecovered(TxOf(L), op'.sigs, i))
                  => /\ op'.err = serialize(After).err
                     /\ \A i \in 1..Len(L.inputs) :
                          SomeKeyRecovered(TxOf(L), op'.sigs, i) =>
                            \E j \in 1..Len(L.inputs[i].signatures) :
                              /\ KeyRecovered(TxOf(L), op'.sigs, i, j)
                              /\ inputs'[i].signatures[j] = op'.sigs[i] \o <<nHashType>>]_vars

\* update_signatures returned on two inputs: the first signature recovered no
\* key and left its input unsigned, the second was stored in its key's slot
C12_Witness ==
    /\ op.name = "update_signatures" /\ op.err = "none"
    /\ Len(inputs) = 2 /\ Len(op.sigs) = 2
    /\ \A j \in 1..Len(inputs[1].x_pubkeys) : ~KeyRecovered(Current, op.sigs, 1, j)
    /\ \A j \in 1..Len(inputs[1].signatures) : inputs[1].signatures[j] = <<>>
    /\ \E j \in 1..Len(inputs[2].signatures) :
         /\ KeyRecovered(Current, op.sigs, 2, j)
         /\ inputs[2].signatures[j] = op.sigs[2] \o <<nHashType>>

\* ----------------------------------------------------------------------- C13
\* the version and the input count of r can be read and the count is zero
InputCountZero(r) ==
    /\ _read_num(r, 0, 4).err = "none"
    /\ read_compact_size(r, 4).err = "none"
    /\ read_compact_size(r, 4).v = 0

\* C13: deserialize of a byte string whose input count is zero raises, and
\* the Transaction object it was attempted on keeps _inputs and _outputs
\* unset (and raw, locktime and version as they were).
C13_ZeroInputCountRejected ==
    [][(op'.name = "deserialize" /\ InputCountZero(raw)) =>
         /\ op'.err # "none"
         /\ ~has_inputs' /\ inputs' = <<>>
         /\ ~has_outputs' /\ outputs' = <<>>
         /\ raw' = raw /\ locktime' = locktime /\ version' = version]_vars

\* deserialize was attempted on a transaction with zero inputs, an output
\* and a locktime, and raised the assertion's error
C13_Witness ==
    /\ op.name = "deserialize" /\ op.err = "AssertionError"
    /\ InputCountZero(raw)
    /\ raw = serialize(Tx(1, 0, <<>>, <<FirstOutput>>)).s
    /\ ~has_inputs /\ ~has_outputs

\* ----------------------------------------------------------------------- C14
\* C14: deserialize of a transaction whose one input is not a coinbase and
\* carries a scriptSig of none of the three templates (a two-push script
\* whose second push is no public key, OP_0 and pushes whose last push is no
\* m-of-n redeem script, OP_0 alone and the empty script among them) does
\* not raise: the input is returned with type 'unknown', num_sig 0, no
\* x_pubkeys and the scriptSig as it was on the wire.
C14_UnmatchedScriptSigIsUnknown ==
    [][(op'.name = "deserialize" /\ raw \in OddRaws) =>
         /\ op'.err = "none"
         /\ has_inputs' /\ Len(inputs') = 1
         /\ inputs'[1].type = "unknown"
         /\ inputs'[1].num_sig = 0
         /\ inputs'[1].x_pubkeys = <<>>
         /\ raw = OddRaw(inputs'[1].scriptSig)]_vars

\* ----------------------------------------------------------------------- C15
\* C15: deserialize of a strict prefix of a valid serialized transaction
\* raises SerializationError: it returns no transaction and raises no error
\* of another kind.
C15_TruncatedRaisesSerializationError ==
    [][(op'.name = "deserialize" /\ raw \in TruncatedRaws) =>
         (op'.err = "SerializationError" /\ ~has_inputs')]_vars

\* ----------------------------------------------------------------------- C16
\* C16: for every key list and m with 1 <= m <= len(keys), multisig_script
\* returns a script that _parse_redeemScript parses to the same m, to
\* n = len(keys) and to the same keys in the same order; multisig_script
\* with m < 1 or m > len(keys) raises and returns no script.
C16_MultisigScriptRoundTrip ==
    [][/\ returned'.fn = "multisig_script" =>
            IF 1 <= returned'.threshold /\ returned'.threshold <= Len(returned'.x_pubkeys)
              THEN returned'.err = "none" /\ returned'.script # <<>>
              ELSE returned'.err # "none" /\ returned'.script = <<>>
       /\ returned'.fn = "_parse_redeemScript" =>
            /\ returned'.err = "none"
            /\ returned'.parsed.m = returned.threshold
            /\ returned'.parsed.n = Len(returned.x_pubkeys)
            /\ returned'.parsed.x_pubkeys = returned.x_pubkeys]_vars

\* a 2-of-3 script over three different keys was built and parsed back
C16_Witness ==
    /\ returned.fn = "_parse_redeemScript" /\ returned.err = "none"
    /\ Len(returned.x_pubkeys) = 3 /\ returned.threshold = 2
    /\ {returned.x_pubkeys[i] : i \in 1..3} = {XK1, XK2, XB}
    /\ returned.parsed.m = 2 /\ returned.parsed.n = 3
    /\ returned.parsed.x_pubkeys = returned.x_pubkeys

\* ----------------------------------------------------------------------- C17
\* the document a caller reads back from the file f: WalletStorage(path),
\* and decrypt with the password of key when the store had a public key
ReadBack(f, key) == IF key = 0 THEN load_file(f) ELSE decrypt(f, key).data

\* C17: write() from the primary thread on a store with changes made by put
\* raises nothing and leaves a file from which reopening (and decrypt with
\* the password, when a public key was set) yields a document with the keys
\* and values of the document held at the time of write().
C17_WriteRoundTrip ==
    [][(sop'.name = "write" /\ sop'.thread = "main" /\ modified) =>
         /\ sop'.err = "none"
         /\ file' # NoFile
         /\ SameDocument(ReadBack(file', pubkey), data)]_vars

\* ----------------------------------------------------------------------- C18
\* C18: when the caller changes a list it passed to put or was given by get,
\* the document keeps its keys and values, so a later get returns and a
\* later write() persists what they would have without the change.
C18_NoAliasing ==
    [][sop'.name = "mutate" =>
         /\ SameDocument(data', data)
         /\ \A key \in CallerKeys : Same(get(data', key, ADefault), get(data, key, ADefault))
         /\ json_dumps(data') = json_dumps(data)
         /\ file' = file /\ modified' = modified]_vars

\* the caller appended to a list after passing it to put, and the document
\* holds the list under that key as it was
C18_Witness ==
    /\ sop.name = "mutate"
    /\ held.some /\ held.via = "put" /\ held.key \in DOMAIN data
    /\ data[held.key].t = "list"
    /\ Len(data[held.key].v) < Len(held.v)

\* ----------------------------------------------------------------------- C19
\* C19: put(key, None) leaves the document without key, so that a later
\* get(key, default) returns default, and sets modified only if the key was
\* present; put with a key or a value json.dumps cannot write raises nothing
\* and leaves the document and modified as they were.
C19_PutNoneAndUnrepresentable ==
    [][sop'.name = "put" =>
         /\ sop'.value.t = "None" =>
              /\ sop'.key \notin DOMAIN data'
              /\ get(data', sop'.key, ADefault) = ADefault
              /\ modified' = (modified \/ sop'.key \in DOMAIN data)
              /\ \A k \in DOMAIN data' : k \in DOMAIN data /\ data'[k] = data[k]
         /\ (sop'.key.t = "bytes" \/ sop'.value.t = "set") =>
              /\ sop'.err = "none"
              /\ data' = data /\ modified' = modified]_vars

\* put(key, None) removed a key that the file, written before, still holds,
\* and set modified
C19_Witness ==
    /\ sop.name = "put" /\ sop.value.t = "None"
    /\ file # NoFile /\ file.enc = 0 /\ sop.key \in DOMAIN file.doc
    /\ sop.key \notin DOMAIN data
    /\ modified

\* ----------------------------------------------------------------------- C20
\* C20: write() on a daemon thread raises nothing, leaves the file as it
\* was, creates no temp file and leaves modified (and the document) as it
\* was; a write() on the primary thread right after it, on a document
\* json.dumps can write, persists the pending changes and clears modified.
C20_DaemonWriteRefused ==
    [][sop'.name = "write" =>
         /\ sop'.thread = "daemon" =>
              /\ sop'.err = "none" /\ ~sop'.temp
              /\ file' = file /\ store_raw' = store_raw
              /\ modified' = modified /\ data' = data /\ pubkey' = pubkey
         /\ (/\ sop'.thread = "main"
             /\ sop.name = "write" /\ sop.thread = "daemon"
             /\ modified /\ ~sort_keys_raises(data)) =>
              /\ sop'.err = "none" /\ sop'.temp
              /\ ~modified'
              /\ file' # NoFile
              /\ SameDocument(ReadBack(file', pubkey), json_loads(json_dumps(data)))]_vars

\* write() was called on a daemon thread with a change pending: nothing is
\* on disk and modified is still set
C20_Witness ==
    /\ sop.name = "write" /\ sop.thread = "daemon" /\ sop.err = "none"
    /\ modified /\ StrKey(1) \in DOMAIN data
    /\ file = NoFile

\* ----------------------------------------------------------------------- C22
\* C22: once WalletStorage(path) has returned for a path with no file, the
\* file exists and holds the tx_store_aeskey of the document, whether or not
\* write() is called later.
C22_AesKeyPersistedAtCreation ==
    (sop.name \in {"init", "open"} /\ store_raw = NoFile) =>
        /\ K_tx_store_aeskey \in DOMAIN data
        /\ file # NoFile
        /\ K_tx_store_aeskey \in DOMAIN ReadBack(file, 0)
        /\ Same(ReadBack(file, 0)[K_tx_store_aeskey], data[K_tx_store_aeskey])

\* ----------------------------------------------------------------------- C21
\* C21: from the moment _write() has made its temp file, through every later
\* position and after a process stop at any of them, the wallet path holds
\* the complete content it had when the call began or the complete new
\* content, and it holds a file if it held one before; when the call has
\* returned, modified is false.
C21_WriteAtomic ==
    frame.s # NoFile =>
        /\ file \in {frame.file, frame.s}
        /\ frame.file # NoFile => file # NoFile
        /\ (pc = "idle" /\ sop.err = "none") => ~modified

\* ----------------------------------------------------------------------- C23
\* upgrade() is running and is past _backup_wallet()
WritePositions == {"_write", "rename", "remove", "rename_again", "chmod"}
PastBackup == sop.name \in {"upgrade", "open"} /\ pc \in Elements(Ladder) \cup WritePositions

\* the backup paths of a wallet among files
BackupsOf(files, of) == {p \in DOMAIN files : p.of = of /\ p.what = "backup"}

\* among after there is a backup of the wallet that before did not have,
\* and it holds content
BackupMade(before, after, of, content) ==
    \E p \in BackupsOf(after, of) \ BackupsOf(before, of) : after[p] = content

\* C23 as stated: every upgrade() that is past its first position has made
\* a backup copy of the wallet file, and every wallet split_accounts has
\* made has a new backup next to it.
C23_BackupUnconditional ==
    /\ PastBackup => BackupMade(frame.dir, dir, "", frame.file)
    /\ sop.name = "split_accounts" =>
         \A of \in Elements(sop.result.v) :
           BackupsOf(dir, of) # BackupsOf(frame.dir, of)

\* what _backup_wallet() does to the backups of a wallet whose file existed
\* with content: one more, under the first number not in use, holding the
\* content; the others are as they were
OneBackupMore(before, after, of, content) ==
    /\ \E p \in BackupsOf(after, of) :
         /\ BackupsOf(after, of) = BackupsOf(before, of) \cup {p}
         /\ p \notin BackupsOf(before, of)
         /\ \A n \in 1..(p.n - 1) : Path(of, "backup", n) \in BackupsOf(before, of)
         /\ p.n >= 1
         /\ after[p] = content
    /\ \A p \in BackupsOf(before, of) : after[p] = before[p]

\* the backups of a wallet are as they were
SameBackups(before, after, of) ==
    /\ BackupsOf(after, of) = BackupsOf(before, of)
    /\ \A p \in BackupsOf(before, of) : after[p] = before[p]

\* C23 (amended): when upgrade() reaches _backup_wallet() nothing has
\* changed the document; past it, if the store's file existed
\* (file_exists()), the wallet file as it was has been copied to
\* path.backup.N for the first N not in use and the backups there were are
\* untouched, and if it did not exist no backup is made.  The same holds for
\* each wallet split_accounts has made: it has a new backup of its file iff
\* its file existed before the call.
C23_BackupWhenFileExists ==
    /\ (sop.name \in {"upgrade", "open"} /\ pc = "_backup_wallet") =>
         /\ data = frame.data /\ modified = frame.modified
         /\ SameBackups(frame.dir, dir, "")
    /\ PastBackup =>
         IF file_exists(store_raw) THEN OneBackupMore(frame.dir, dir, "", frame.file)
         ELSE SameBackups(frame.dir, dir, "")
    /\ sop.name = "split_accounts" =>
         \A of \in Elements(sop.result.v) :
           IF split_path(of) \in DOMAIN frame.dir
             THEN OneBackupMore(frame.dir, dir, of, frame.dir[split_path(of)])
             ELSE SameBackups(frame.dir, dir, of)

\* upgrade() was called on a store whose file has a backup of an earlier
\* upgrade next to it: the second backup is made, the ladder has not begun
C23_Witness ==
    /\ sop.name = "upgrade" /\ pc = Ladder[1]
    /\ file_exists(store_raw)
    /\ Path("", "backup", 1) \in DOMAIN frame.dir
    /\ Path("", "backup", 2) \in DOMAIN dir \ DOMAIN frame.dir
    /\ dir[Path("", "backup", 2)] = file
    /\ dir[Path("", "backup", 1)] # file

\* ----------------------------------------------------------------------- C24
\* C24: for a document with more than one account, WalletStorage(path)
\* raises, and upgrade() called on it (the store made with
\* manual_upgrades=True) leaves the document as it was at every position
\* and ends with an exception.
C24_MultiAccountNeverTransformed ==
    (sop.name \in {"upgrade", "open"} /\ requires_split(frame.data)) =>
        /\ (sop.name = "open" /\ ~manual_upgrades) => (pc = "none" /\ sop.err # "none")
        /\ sop.name = "upgrade" =>
             /\ SameDocument(data, frame.data)
             /\ pc = "idle" => sop.err # "none"

\* ----------------------------------------------------------------------- C25
\* the accounts of a document, and those of them that are not pending
AccountsOf(d) == get(d, K_accounts, ADict(<<>>)).v
NonPending(accounts) == {k \in DOMAIN accounts : ~Truthy(DictGet(accounts[k], F_pending))}

\* the wallet types split_accounts knows
SplitTypes == {T_old, T_bip44, T_trezor, T_keepkey, T_ledger, T_btchip, T_digitalbitbox}

\* the document written for a suffix
SplitDocument(files, of) == load_file(files[split_path(of)])

\* a private key in the keystore of a document is the one of its public key
OwnSlice(keystore) ==
    (DictGet(keystore, F_xprv).t = "str" /\ DictGet(keystore, F_xpub).t = "str") =>
        DictGet(keystore, F_xprv).v[1] = DictGet(keystore, F_xpub).v[1] + 100

\* a wallet written by split_accounts: at the final version, the accounts
\* replaced by one subwallet that holds the keystore of its own account
\* (imported addresses without private keys have no keystore)
SplitWallet(d) ==
    /\ K_seed_version \in DOMAIN d
    /\ Same(d[K_seed_version], AnInt(FINAL_SEED_VERSION))
    /\ K_accounts \notin DOMAIN d
    /\ K_subwallets \in DOMAIN d
    /\ Len(d[K_subwallets].v) = 1
    /\ DictGet(d[K_subwallets].v[1], K_keystore).t = "dict" =>
         OwnSlice(DictGet(d[K_subwallets].v[1], K_keystore))

\* C25: split_accounts on a document with two or more accounts leaves the
\* document and the wallet file of the store as they were; for a wallet type
\* it knows it raises nothing and leaves one written wallet per account that
\* is not pending, each at the final version and holding the keys of its
\* own account only; for any other wallet type it raises and leaves no file.
C25_SplitAccounts ==
    (sop.name = "split_accounts" /\ Cardinality(DOMAIN AccountsOf(frame.data)) >= 2) =>
        /\ SameDocument(data, frame.data)
        /\ file = frame.file
        /\ get(frame.data, K_wallet_type, None) \in SplitTypes =>
             /\ sop.err = "none"
             /\ Len(sop.result.v) = Cardinality(NonPending(AccountsOf(frame.data)))
             /\ \A i \in 1..Len(sop.result.v) :
                  /\ split_path(sop.result.v[i]) \in DOMAIN dir
                  /\ SplitWallet(SplitDocument(dir, sop.result.v[i]))
        /\ get(frame.data, K_wallet_type, None) \notin SplitTypes =>
             /\ sop.err # "none"
             /\ dir = frame.dir

\* ----------------------------------------------------------------------- C26
\* the seed_version a document stores (0 when it stores none)
StoredVersion(d) ==
    IF K_seed_version \in DOMAIN d /\ d[K_seed_version].t = "int" THEN d[K_seed_version].v[1]
    ELSE 0

\* the step gated on a version from 13 on
StepGatedOn(v) ==
    CASE v = 13 -> "convert_version_14"
      [] v = 14 -> "convert_version_15"
      [] v = 15 -> "convert_version_16"
      [] v = 16 -> "convert_version_17"
      [] v = 17 -> "convert_version_18"
      [] v = 18 -> "convert_version_19"
      [] OTHER -> "none"

\* C26: a step of the ladder of upgrade() never lowers the seed_version of
\* the document, and a step that changes a seed_version of 13 or more raises
\* it by exactly 1 and is the step gated on the version it found.
C26_SeedVersionLadder ==
    [][(pc \in Elements(Ladder) /\ data' # <<>>) =>
         /\ StoredVersion(data') >= StoredVersion(data)
         /\ (StoredVersion(data) >= 13 /\ StoredVersion(data') # StoredVersion(data)) =>
              /\ StoredVersion(data') = StoredVersion(data) + 1
              /\ pc = StepGatedOn(StoredVersion(data))]_vars

\* an upgrade() that found version 11 has run every step and holds 19
C26_Witness ==
    /\ sop.name = "upgrade" /\ pc = "_write"
    /\ StoredVersion(frame.data) = 11
    /\ StoredVersion(data) = FINAL_SEED_VERSION

\* ----------------------------------------------------------------------- C27
\* a document of a version this program does not know yet
Future(d) == StoredVersion(d) > FINAL_SEED_VERSION

\* C27 as stated: on a document whose seed_version exceeds 19, loading,
\* requires_upgrade() and upgrade() raise, and the document, the wallet file
\* and the backup files are as they were.
C27_RejectedOutright ==
    Future(frame.data) =>
        /\ sop.name = "open" =>
             /\ sop.err # "none"
             /\ file = frame.file /\ dir = frame.dir
        /\ sop.name = "requires_upgrade" =>
             /\ sop.err # "none"
             /\ SameDocument(data, frame.data)
             /\ file = frame.file /\ dir = frame.dir
        /\ (sop.name = "upgrade" /\ pc = "idle") =>
             /\ sop.err # "none"
             /\ SameDocument(data, frame.data)
             /\ file = frame.file /\ SameBackups(frame.dir, dir, "")

\* C27 (amended): on a document whose seed_version exceeds 19,
\* WalletStorage(path) raises RuntimeError and WalletStorage(path,
\* manual_upgrades=True) raises nothing and holds the document;
\* requires_upgrade() raises RuntimeError; upgrade() raises RuntimeError in
\* its first step, after _backup_wallet() has made one more backup of the
\* wallet file.  None of them changes the document, the dirty flag or the
\* wallet file, and the first two leave the files next to it as they were.
C27_FutureVersionRejected ==
    Future(frame.data) =>
        /\ sop.name = "open" =>
             /\ sop.err = (IF manual_upgrades THEN "none" ELSE "RuntimeError")
             /\ manual_upgrades => (pc = "idle" /\ SameDocument(data, frame.data) /\ ~modified)
             /\ file = frame.file /\ dir = frame.dir
        /\ sop.name = "requires_upgrade" =>
             /\ sop.err = "RuntimeError"
             /\ SameDocument(data, frame.data) /\ modified = frame.modified
             /\ file = frame.file /\ dir = frame.dir
        /\ sop.name = "upgrade" =>
             /\ SameDocument(data, frame.data) /\ modified = frame.modified
             /\ file = frame.file
             /\ pc \in {"_backup_wallet", Ladder[1], "idle"}
             /\ pc = "idle" =>
                  /\ sop.err = "RuntimeError"
                  /\ frame.raised = Ladder[1]
                  /\ OneBackupMore(frame.dir, dir, "", frame.file)

\* upgrade() on a document of version 20 has raised, and there is a backup
\* that was not there
C27_Witness ==
    /\ sop.name = "upgrade" /\ pc = "idle" /\ sop.err = "RuntimeError"
    /\ Future(frame.data) /\ Future(data)
    /\ BackupsOf(dir, "") # BackupsOf(frame.dir, "")

\* ----------------------------------------------------------------------- C28
\* a document at the final version
Final(d) == StoredVersion(d) = FINAL_SEED_VERSION

\* C28 as stated: upgrade() on a document at version 19 leaves the
\* document, the dirty flag, the wallet file and the files next to it as
\* they were.
C28_UpgradeNoOp ==
    (sop.name = "upgrade" /\ pc = "idle" /\ Final(frame.data)) =>
        /\ SameDocument(data, frame.data)
        /\ modified = frame.modified
        /\ file = frame.file
        /\ dir = frame.dir

\* C28 (amended): upgrade() on a document at version 19 raises nothing and
\* leaves the keys and values of the document as they were at every
\* position, in every call; when it has returned, a store whose file existed
\* has one more backup of the wallet file and a store without a file has
\* none; a store that had no unsaved changes has its wallet file untouched,
\* and a store that had them has the document written and is clean.
C28_UpgradeAtFinalVersion ==
    (sop.name = "upgrade" /\ Final(frame.data)) =>
        /\ SameDocument(data, frame.data)
        /\ sop.err = "none"
        /\ pc \in Elements(Ladder) \cup {"_backup_wallet"} =>
             (modified = frame.modified /\ file = frame.file)
        /\ pc = "idle" =>
             /\ ~modified
             /\ IF frame.file # NoFile THEN OneBackupMore(frame.dir, dir, "", frame.file)
                ELSE SameBackups(frame.dir, dir, "")
             /\ IF frame.modified
                  THEN file # NoFile /\ SameDocument(ReadBack(file, 0), data)
                  ELSE file = frame.file

\* the second upgrade() in a row on a wallet at version 19 that had a backup
\* already has returned: three backups
C28_Witness ==
    /\ sop.name = "upgrade" /\ pc = "idle" /\ Final(frame.data)
    /\ Cardinality(BackupsOf(frame.dir, "")) = 2
    /\ Cardinality(BackupsOf(dir, "")) = 3
    /\ file = frame.file

\* ----------------------------------------------------------------------- C29
\* the imported account of a document holds entries with a private key and
\* entries without; it holds entries of one kind only
MixedEntries(d) ==
    /\ WatchedAddresses(ImportedEntries(d)) # <<>>
    /\ ImportedKeypairs(ImportedEntries(d)) # <<>>
OneKind(d) == ImportedEntries(d) # <<>> /\ ~MixedEntries(d)

\* convert_imported has returned or raised in a migration
ConvertImportedDone ==
    /\ sop.name \in {"upgrade", "open"}
    /\ pc = Ladder[2] \/ frame.raised = Ladder[1]

\* the versions get_seed_version accepts up to 13
SupportedVersions == {4, 11, 12, 13}

\* C29 as stated: for a document of a version up to 13, convert_imported
\* raises 'mixed addresses and privkeys' on an imported account with entries
\* of both kinds, having changed no key, and raises nothing on entries of
\* one kind.
C29_MixedImportedRaises ==
    (ConvertImportedDone /\ StoredVersion(frame.data) <= 13) =>
        /\ MixedEntries(frame.data) =>
             /\ frame.raised = Ladder[1]
             /\ sop.err = "Exception: mixed addresses and privkeys"
             /\ sop.name = "upgrade" => SameDocument(data, frame.data)
        /\ OneKind(frame.data) => frame.raised # Ladder[1]

\* C29 (amended): for a document of version 4, 11, 12 or 13,
\* convert_imported raises 'mixed addresses and privkeys' on an imported
\* account with entries of both kinds and raises nothing on entries of one
\* kind, which it replaces by 'addresses' or 'keypairs'; for a document of
\* another version below 12 it raises the unsupported-version error
\* whatever the entries are.  When it raises it has changed no key of the
\* document and not the dirty flag, and the wallet file is as it was.
C29_MixedImportedRejected ==
    (ConvertImportedDone /\ StoredVersion(frame.data) <= 13) =>
        /\ (MixedEntries(frame.data) /\ StoredVersion(frame.data) \in SupportedVersions) =>
             /\ frame.raised = Ladder[1]
             /\ sop.err = "Exception: mixed addresses and privkeys"
        /\ (OneKind(frame.data) /\ StoredVersion(frame.data) \in SupportedVersions) =>
             /\ frame.raised = "none" /\ sop.err = "none"
             /\ K_accounts \notin DOMAIN data
             /\ K_addresses \in DOMAIN data \/ K_keypairs \in DOMAIN data
        /\ StoredVersion(frame.data) \in 1..13 \ SupportedVersions =>
             /\ frame.raised = Ladder[1]
             /\ sop.err = "Exception: unsupported seed version"
        /\ frame.raised = Ladder[1] =>
             /\ file = frame.file
             /\ sop.name = "upgrade" =>
                  (SameDocument(data, frame.data) /\ modified = frame.modified)

\* upgrade() on a wallet of version 13 with a mixed imported account has
\* raised in convert_imported
C29_Witness ==
    /\ sop.name = "upgrade" /\ pc = "idle"
    /\ frame.raised = Ladder[1]
    /\ sop.err = "Exception: mixed addresses and privkeys"
    /\ MixedEntries(frame.data) /\ StoredVersion(frame.data) = 13

\* ----------------------------------------------------------------------- C30
\* the positions inside upgrade()
UpgradePositions == Elements(Ladder) \cup WritePositions \cup {"_backup_wallet"}

Advance ==
    /\ pc \in UpgradePositions
    /\ pc' \in UpgradePositions \cup {"idle", "none"}
    /\ pc' # pc

MigrationFairSpec == MigrationSpec /\ WF_pc(Advance)

\* upgrade() is running, called by the caller or by the constructor
InUpgrade == sop.name \in {"upgrade", "open"} /\ pc \in UpgradePositions

\* the version get_seed_version reads is one upgrade() starts from
SupportedStart(d) == get_seed_version(d).err = "none" /\ get_seed_version(d).v <= 18

\* upgrade() has returned to the caller, or the constructor that ran it has
UpgradeReturned ==
    /\ sop.err = "none" /\ pc = "idle"
    /\ sop.name = "upgrade" \/ (sop.name = "open" /\ ~manual_upgrades /\ frame.file # NoFile)

\* C31: upgrade() on a document of a version it starts from (seed_version
\* absent, 4, 11, 12 .. 18) terminates; its steps are taken in the order of
\* the ladder, one after the other and none twice; the version gate never
\* raises 'unexpected version'; and when it has returned, seed_version is 19
\* and the wallet file holds the document.
C31_UpgradeTerminates ==
    /\ InUpgrade ~> ~InUpgrade
    /\ [][(InUpgrade /\ pc \in Elements(Ladder) /\ pc' \in UpgradePositions) =>
            pc' = NextStep(pc)]_vars
    /\ []((sop.name \in {"upgrade", "open"} /\ SupportedStart(frame.data)) =>
            sop.err # "Exception: unexpected version")
    /\ []((UpgradeReturned /\ SupportedStart(frame.data)) =>
            /\ StoredVersion(data) = FINAL_SEED_VERSION
            /\ ~modified
            /\ file # NoFile
            /\ SameDocument(ReadBack(file, 0), data))

\* upgrade() on a wallet that stores no seed_version has returned
C31_Witness ==
    /\ UpgradeReturned /\ sop.name = "upgrade"
    /\ K_seed_version \notin DOMAIN frame.data
    /\ SupportedStart(frame.data)
    /\ StoredVersion(data) = FINAL_SEED_VERSION
    /\ file # frame.file

\* ----------------------------------------------------------------------- C32
\* the keys whose values convert_version_18 reads and hands to the external
\* repository
BulkKeys ==
    {K_transactions, K_fees, K_verified_tx3, K_txi, K_txo, K_addresses, K_addr_history,
     K_frozen_addresses, K_frozen_coins, K_pruned_txo}

\* convert_version_18 has run in this migration and returned
ConvertVersion18Done ==
    /\ sop.name \in {"upgrade", "open"} /\ pc = "convert_version_19"
    /\ StoredVersion(frame.data) <= 17
    /\ StoredVersion(data) = 18

\* C32: when convert_version_18 has run and returned, none of the keys it
\* read bulk data from is in the document, a tx_store_aeskey the document
\* had is the same, and wallet_author is 'ESV'.
C32_BulkDataRemoved ==
    ConvertVersion18Done =>
        /\ \A k \in BulkKeys : k \notin DOMAIN data
        /\ K_tx_store_aeskey \in DOMAIN data
        /\ K_tx_store_aeskey \in DOMAIN frame.data =>
             Same(data[K_tx_store_aeskey], frame.data[K_tx_store_aeskey])
        /\ K_wallet_author \in DOMAIN data /\ Same(data[K_wallet_author], ESV)

\* ----------------------------------------------------------------------- C33
\* the record of the first subwallet of a document
FirstSubwallet(d) == d[K_subwallets].v[1]

\* the keys convert_version_19 moves: the wallet fields and, for an m-of-n
\* wallet, the keystores of the cosigners
MovedKeys(d) ==
    Elements(possible_wallet_fields) \cup CosignerNames(multisig_type(get(d, K_wallet_type, None)))

\* C33: the step convert_version_19 that takes a document from version 18
\* to 19 leaves 'subwallets' a list of one record with id 0 and the wallet
\* type of the document; every wallet field and cosigner keystore the
\* document had is in the record with the value it had, and is not at top
\* level any more.
C33_SubwalletHoldsFields ==
    [][(sop.name \in {"upgrade", "open"} /\ pc = "convert_version_19" /\ pc' = "put"
          /\ StoredVersion(data) = 18) =>
         /\ StoredVersion(data') = FINAL_SEED_VERSION
         /\ K_subwallets \in DOMAIN data'
         /\ data'[K_subwallets].t = "list"
         /\ Len(data'[K_subwallets].v) = 1
         /\ Same(DictGet(FirstSubwallet(data'), F_id), AnInt(0))
         /\ Same(DictGet(FirstSubwallet(data'), F_wallet_type), data[K_wallet_type])
         /\ \A k \in MovedKeys(data) \cap DOMAIN data :
              /\ k \in DOMAIN FirstSubwallet(data').v
              /\ Same(FirstSubwallet(data').v[k], data[k])
              /\ k \notin DOMAIN data']_vars

\* ----------------------------------------------------------------------- C34
\* requires_upgrade() has answered
Answered(answer) == sop.err = "none" /\ Same(sop.result, Val("bool", <<answer>>, 0))

\* the document carries the marker of this program
Authored(d) == K_wallet_author \in DOMAIN d /\ Same(d[K_wallet_author], ESV)

\* the call has changed nothing of the store and of the files
NothingChanged ==
    /\ SameDocument(data, frame.data) /\ modified = frame.modified
    /\ file = frame.file /\ dir = frame.dir

\* C34 as stated: requires_upgrade() on an existing file answers true for
\* every version up to 17, true at 18 for a document with the 'ESV' marker,
\* false at 19, and raises IncompatibleWalletError at 18 without the marker,
\* in which case nothing is migrated, backed up or written.
C34_RequiresUpgrade ==
    (sop.name = "requires_upgrade" /\ store_raw # NoFile) =>
        /\ StoredVersion(frame.data) <= 17 => Answered(1)
        /\ (StoredVersion(frame.data) = 18 /\ Authored(frame.data)) => Answered(1)
        /\ StoredVersion(frame.data) = 19 => Answered(0)
        /\ (StoredVersion(frame.data) = 18 /\ ~Authored(frame.data)) =>
             (sop.err = "IncompatibleWalletError" /\ NothingChanged)

\* C34 (amended): requires_upgrade() on an existing file answers true for a
\* document without seed_version and for the versions 4 and 11 to 17, true
\* at 18 for a document with the 'ESV' marker and false at 19; it raises the
\* unsupported-version error for the other versions below 11 and
\* IncompatibleWalletError at 18 without the marker.  It changes nothing of
\* the document, the wallet file and the files next to it, and the
\* constructor that meets IncompatibleWalletError raises it with no backup
\* made and nothing written.
C34_RequiresUpgradeSupported ==
    /\ (sop.name = "requires_upgrade" /\ store_raw # NoFile) =>
         /\ StoredVersion(frame.data) \in {0, 4} \cup 11..17 => Answered(1)
         /\ StoredVersion(frame.data) \in 1..10 \ {4} =>
              sop.err = "Exception: unsupported seed version"
         /\ (StoredVersion(frame.data) = 18 /\ Authored(frame.data)) => Answered(1)
         /\ StoredVersion(frame.data) = 19 => Answered(0)
         /\ (StoredVersion(frame.data) = 18 /\ ~Authored(frame.data)) =>
              sop.err = "IncompatibleWalletError"
         /\ NothingChanged
    /\ (sop.name = "open" /\ ~manual_upgrades /\ StoredVersion(frame.data) = 18
          /\ ~Authored(frame.data)) =>
         /\ sop.err = "IncompatibleWalletError" /\ pc = "none"
         /\ file = frame.file /\ dir = frame.dir

\* requires_upgrade() has raised IncompatibleWalletError on a version-18
\* wallet of another program
C34_Witness ==
    /\ sop.name = "requires_upgrade" /\ store_raw # NoFile
    /\ StoredVersion(frame.data) = 18 /\ ~Authored(frame.data)
    /\ sop.err = "IncompatibleWalletError"

\* ================================================ threads on one store
\* put() and write() called from several threads.  Here pc gives the position
\* of each thread in its call and frame what each thread's call holds: the
\* call, its arguments, and the text s that _write() made of the document.
Threads == {"t1", "t2"}

ThreadKeys == {StrKey(1), StrKey(2)}
ThreadValues == {AString, Val("str", <<2>>, 0), None}

Local(name, key, value, s) == [name |-> name, key |-> key, value |-> value, s |-> s]
NoLocal == Local("none", StrKey(0), None, NoFile)

\* the positions inside "with self.lock:"
Holding == {"put_test", "put_modified", "put_store", "_write", "dumps", "open", "modified"}

\* a lock that excludes nobody
lock_shared(self) == TRUE

\* self.lock can be taken by the thread: no other thread is inside it
lock_free(self) == \A t \in Threads \ {self} : pc[t] \notin Holding

\* two threads share WalletStorage(path), made where no file exists
ThreadInit ==
    /\ data = NewDocument.data /\ modified = NewDocument.modified
    /\ pubkey = 0
    /\ store_raw = NoFile /\ file = NoFile
    /\ held = NotHeld
    /\ sop = StoreOp("init", "none", StrKey(0), None, None, "main", FALSE)
    /\ manual_upgrades = TRUE /\ dir = <<>> /\ os_name = "posix"
    /\ pc = [t \in Threads |-> "idle"] /\ frame = [t \in Threads |-> NoLocal]
    /\ NoTransaction

\* a step of a thread that touches only its own position
ThreadStep(self, to) ==
    /\ pc' = [pc EXCEPT ![self] = to]
    /\ UNCHANGED <<txVars, returned, pubkey, held, sop, manual_upgrades, dir, os_name>>

\* the thread calls put(key, value): both pass json.dumps
CallPut(self) ==
    /\ pc[self] = "idle"
    /\ \E key \in ThreadKeys, value \in ThreadValues :
         frame' = [frame EXCEPT ![self] = Local("put", key, value, NoFile)]
    /\ ThreadStep(self, "lock")
    /\ UNCHANGED <<data, modified, store_raw, file>>

\* the thread calls write()
CallWrite(self) ==
    /\ pc[self] = "idle"
    /\ frame' = [frame EXCEPT ![self] = Local("write", StrKey(0), None, NoFile)]
    /\ ThreadStep(self, "lock")
    /\ UNCHANGED <<data, modified, store_raw, file>>

\* with self.lock:
Acquire(self) ==
    /\ pc[self] = "lock"
    /\ lock_free(self)
    /\ ThreadStep(self, IF frame[self].name = "put" THEN "put_test" ELSE "_write")
    /\ UNCHANGED <<data, modified, store_raw, file, frame>>

\* put: the tests on value and on self.data
PutTest(self) ==
    /\ pc[self] = "put_test"
    /\ ThreadStep(self, IF put(data, FALSE, frame[self].key, frame[self].value).modified
                          THEN "put_modified" ELSE "idle")
    /\ UNCHANGED <<data, modified, store_raw, file, frame>>

\* put: self.modified = True
PutModified(self) ==
    /\ pc[self] = "put_modified"
    /\ modified' = TRUE
    /\ ThreadStep(self, "put_store")
    /\ UNCHANGED <<data, store_raw, file, frame>>

\* put: self.data[key] = copy.deepcopy(value), or self.data.pop(key); the
\* lock is left
PutStore(self) ==
    /\ pc[self] = "put_store"
    /\ data' = put(data, modified, frame[self].key, frame[self].value).data
    /\ ThreadStep(self, "idle")
    /\ UNCHANGED <<modified, store_raw, file, frame>>

\* _write: the thread is no daemon; nothing to do unless self.modified
WriteTest(self) ==
    /\ pc[self] = "_write"
    /\ ThreadStep(self, IF modified THEN "dumps" ELSE "idle")
    /\ UNCHANGED <<data, modified, store_raw, file, frame>>

\* _write: s = json.dumps(self.data), encrypted if self.pubkey
Dumps(self) ==
    /\ pc[self] = "dumps"
    /\ frame' = [frame EXCEPT ![self].s = encrypt_message(json_dumps(data), pubkey)]
    /\ ThreadStep(self, "open")
    /\ UNCHANGED <<data, modified, store_raw, file>>

\* _write: s is written to the temporary file, which becomes the wallet file
WriteFile(self) ==
    /\ pc[self] = "open"
    /\ file' = frame[self].s /\ store_raw' = frame[self].s
    /\ ThreadStep(self, "modified")
    /\ UNCHANGED <<data, modified, frame>>

\* _write: self.modified = False; the lock is left
WriteDone(self) ==
    /\ pc[self] = "modified"
    /\ modified' = FALSE
    /\ ThreadStep(self, "idle")
    /\ UNCHANGED <<data, store_raw, file, frame>>

ThreadNext ==
    \E self \in Threads :
        \/ CallPut(self) \/ CallWrite(self) \/ Acquire(self)
        \/ PutTest(self) \/ PutModified(self) \/ PutStore(self)
        \/ WriteTest(self) \/ Dumps(self) \/ WriteFile(self) \/ WriteDone(self)

ThreadSpec == ThreadInit /\ [][ThreadNext]_vars

\* ----------------------------------------------------------------------- C35
\* a thread is between the snapshot of its write() and the end of that write
Writing(t) == pc[t] \in {"open", "modified"}

\* C35: under any interleaving of put and write calls of two threads on one
\* store no update is lost.  The text a write() is writing is the document as
\* it is (no put changes the document between the snapshot and the end of
\* the write); the file is never other than a snapshot of a document; and
\* whenever no thread is inside a put or a write and the dirty flag is false,
\* the file holds the current document, so that a put that changed the
\* document after a snapshot has left the flag true.
C35_NoLostUpdate ==
    /\ \A t \in Threads :
         Writing(t) => frame[t].s = encrypt_message(json_dumps(data), pubkey)
    /\ \A t \in Threads :
         pc[t] = "modified" => (modified /\ file = frame[t].s)
    /\ ((\A t \in Threads : pc[t] \notin Holding) /\ ~modified) =>
         (file # NoFile /\ SameDocument(ReadBack(file, 0), data))

\* a write() has ended, a put of the other thread that waited for it has
\* changed the document, and the flag is true
C35_Witness ==
    /\ file # NoFile /\ ~SameDocument(ReadBack(file, 0), data)
    /\ modified
    /\ \E t \in Threads : frame[t].name = "put" /\ pc[t] = "idle"
    /\ \E t \in Threads : frame[t].name = "write" /\ pc[t] = "idle"

\* ================================================ encrypted wallet files
\* The documents found in encrypted wallet files: wallets to upgrade,
\* wallets to split, and a wallet of the final version.
EncryptedDocuments ==
    {KeystoreWallet(17), FinalWallet,
     Wallet11(T_standard, {X_root}, A_0 :> Account(1)),
     Wallet11(T_bip44, {X_0, X_1}, A_0 :> Account(1) @@ A_1 :> Account(2)),
     OldWallet(A_0 :> Account(1) @@ A_x :> ImportedAccount(OnlyKeys))}

\* the files before any store is made: a wallet file encrypted with the
\* password
EncryptedInit ==
    /\ file \in {Content(Password, d) : d \in EncryptedDocuments}
    /\ dir = <<>>
    /\ os_name \in {"posix", "nt"}
    /\ manual_upgrades = FALSE
    /\ data = <<>> /\ modified = FALSE /\ pubkey = 0 /\ store_raw = NoFile
    /\ held = NotHeld
    /\ sop = StoreOp("none", "none", StrKey(0), None, None, "main", FALSE)
    /\ pc = "none" /\ frame = NoFrame
    /\ NoTransaction

EncryptedNext == MigrationNext \/ DecryptCall

EncryptedSpec == EncryptedInit /\ [][EncryptedNext]_vars

\* ----------------------------------------------------------------------- C36
\* C36: the constructor on an encrypted file returns with an empty document
\* and with no file made or changed; the automatic split check, backup and
\* migration run only in a decrypt() that has decrypted the content (the
\* public key is then set); and a decrypt() that fails changes neither the
\* document nor the public key, so that on the store as constructed the
\* document stays empty and the public key unset.
C36_EncryptedNotLoaded ==
    /\ []((sop.name = "open" /\ frame.file.enc = Password) =>
            /\ data = <<>> /\ pubkey = 0 /\ sop.err = "none" /\ pc = "idle"
            /\ file = frame.file /\ dir = frame.dir)
    /\ []((sop.name \in {"open", "decrypt"} /\ frame.file.enc = Password
             /\ (pc \in UpgradePositions \/ sop.err = "Exception: must be split")) =>
            (sop.name = "decrypt" /\ pubkey = Password))
    /\ [][(sop'.name = "decrypt" /\ sop'.err = "DecryptionError" /\ sop' # sop) =>
            /\ data' = data /\ pubkey' = pubkey /\ pc' = "idle"
            /\ file' = file /\ dir' = dir]_vars
    /\ [][(sop.name = "open" /\ sop'.name = "decrypt" /\ sop'.err = "DecryptionError") =>
            (data' = <<>> /\ pubkey' = 0)]_vars

\* the constructor has found the file encrypted, and decrypt(password) has
\* run the migration and written the file
C36_Witness ==
    /\ sop.name = "decrypt" /\ sop.err = "none" /\ pc = "idle"
    /\ frame.file.enc = Password /\ frame.data = <<>>
    /\ StoredVersion(data) = FINAL_SEED_VERSION /\ file # frame.file

\* ----------------------------------------------------------------------- C39
\* the files with content next to the wallet file, and the wallet file
WrittenFiles == {dir[p] : p \in {q \in DOMAIN dir : q # db_path(q.of)}} \cup ({file} \ {NoFile})

\* the store holds a document it has decrypted
HoldsDecrypted == pubkey = Password /\ store_raw # NoFile

\* C39: no file made from a store that holds a decrypted document is in
\* plaintext: the wallet file, the backups, the temporary file of the
\* automatic upgrade after decrypt, and the wallets split_accounts makes are
\* all encrypted under the public key of the store.
C39_NeverPlaintext == HoldsDecrypted => \A f \in WrittenFiles : f.enc = pubkey

\* ================================================ signing a parsed transaction
\* Transaction(raw) with the raw bytes not yet parsed
SigningInit ==
    /\ Init
    /\ raw \in RawPool /\ ~has_inputs

\* deserialize, sign and update_signatures and no other call
SigningNext == Deserialize \/ Sign \/ UpdateSignatures

SigningSpec == SigningInit /\ [][SigningNext]_vars

\* ----------------------------------------------------------------------- C37
\* C37: after any sequence of sign and update_signatures calls on a
\* transaction made from raw bytes, no input holds more non-empty signatures
\* than its num_sig.
C37_NeverOverSigned ==
    \A i \in 1..Len(inputs) :
      inputs[i].type # "coinbase" => SignatureCount(inputs[i]) <= inputs[i].num_sig

\* ================================================ put, set_password and write
\* put, set_password and write and no other call on a new store
PasswordNext == Put \/ SetPassword \/ Write

PasswordSpec == StoreInit /\ [][PasswordNext]_vars

\* ----------------------------------------------------------------------- C38
\* C38: after any sequence of put, set_password and write, whenever the dirty
\* flag is false and the file exists, the file holds the serialization of
\* the current document, encrypted to the current public key if one is set
\* and in plaintext otherwise.
C38_FileFollowsPassword ==
    (~modified /\ file # NoFile) => file = encrypt_message(json_dumps(data), pubkey)

\* ----------------------------------------------------------------------- C40
\* the entries handed to one store of the repository of the wallet, call by
\* call
EntriesHanded(store) ==
    SelectSeq(HandedTo(dir, ""), LAMBDA h : h.store = store)

\* no entry was handed twice to the store
HandedOnce(store) ==
    \A i, j \in 1..Len(EntriesHanded(store)) :
      i # j => DOMAIN EntriesHanded(store)[i].entries.v
                 \cap DOMAIN EntriesHanded(store)[j].entries.v = {}

\* the version of the wallet file on disk
DurableVersion == IF file = NoFile THEN 0 ELSE StoredVersion(ReadBack(file, 0))

\* C40: the repository and the wallet file stay consistent across failures.
\* Once no upgrade is in progress, a repository that was handed bulk data
\* stands next to a wallet file of seed_version 18 or more; and no
\* transaction and no input or output record is handed to the repository
\* twice, whatever upgrades failed, were stopped and were tried again.
C40_HandedAtMostOnce ==
    /\ (pc \in {"none", "idle"} /\ EntriesHanded("tx_store") # <<>>) => DurableVersion >= 18
    /\ HandedOnce("tx_store") /\ HandedOnce("txin_store") /\ HandedOnce("txout_store")

====
